---- MODULE Spec2Model ----
(***************************************************************************)
(* Model of moonship.core.redis: the reference-counted process-wide Redis  *)
(* handle (init_redis / close_redis) and the RedisMessageBus subscription  *)
(* table and listener loop.                                                *)
(*                                                                         *)
(* All code runs on one asyncio event loop: a coroutine runs atomically    *)
(* from one `await` of a network operation to the next.  Every action      *)
(* below is one such atomic segment.                                       *)
(***************************************************************************)
EXTENDS Integers, Sequences, FiniteSets, TLC

(***************************************************************************)
(* Bounds.                                                                 *)
(***************************************************************************)
NumTasks == 3        \* coroutines that call init_redis / close_redis
MaxAcquires == 4     \* init_redis calls per behaviour
NumBusTasks == 2     \* coroutines that call subscribe / unsubscribe
MaxCalls == 3        \* subscribe / unsubscribe calls per behaviour
NumChannels == 2
NumListenChannels == 1  \* channels in use while the listener is modelled
NumHandlers == 2
MaxMsgs == 2         \* messages the listener receives per behaviour
MaxListLen == 2      \* elements of a list in the store
MaxQueue == 2        \* steps of a bulk operation
MaxTtl == 1          \* largest time to live, in clock ticks
MaxIdle == 2         \* idle_session_expiry_msec, in clock ticks
NumReqs == 2         \* HTTP requests served at the same time
MaxTime == 2         \* clock ticks per behaviour
MaxWait == 2         \* clock ticks of the timeout of publish_and_receive
MaxHeaderLen == 5    \* pieces of an Authorization header

Tasks == 1..NumTasks
ConnIds == 1..NumTasks
None == 0

VARIABLES
    redis,            \* module global `redis`: None or a connection id
    redis_ref_count,  \* module global `redis_ref_count`
    conn,             \* connection id -> "unused" | "open" | "closing" | "closed"
    closes,           \* connection id -> number of close() calls made on it
    pc,               \* task -> position in init_redis / close_redis
    handle,           \* task -> connection being established, then the handle returned
    acquires,         \* completed init_redis calls
    releases,         \* close_redis calls made
    channel_handlers, \* RedisMessageBus._channel_handlers: channel -> list object or None (no key)
    lists,            \* the handler list objects: list id -> sequence of handlers
    pubsub_channels,  \* channels subscribed at the pub/sub transport (self._pubsub)
    b_pc,             \* bus task -> position in subscribe / unsubscribe
    b_arg,            \* bus task -> what the call it is suspended in still reads of its arguments
    last_op,          \* what the latest step was, if an unsubscribe call or a message receipt
    calls,            \* subscribe / unsubscribe calls made so far
    l_pc,             \* position of the _listen task
    l_handlers,       \* _listen local `handlers`: the list object being iterated, or None
    l_next,           \* position of the `for handler in handlers` iterator
    l_msg,            \* _listen local `msg`, while it is being dispatched
    l_running,        \* the handler call being awaited and its arguments
    l_registered,     \* the handlers registered for msg's channel when it was received
    invoked,          \* the handlers called for msg so far, in call order
    active,           \* handler calls started and not yet returned or raised
    msg_seq,          \* messages received so far
    logged,           \* what _listen passed to logger.exception, in order
    c_pc,             \* position of the coroutine that calls RedisMessageBus.close
    c_todo,           \* close: channels of `list(self._channel_handlers.keys())` not yet visited
    c_log,            \* what close has done so far, in order
    pubsub_closed,    \* self._pubsub.close() has been called
    c_before,         \* close: the registered channels and the reference count when it was called
    k_val,            \* the Redis store: storage key -> value
    k_ttl,            \* the Redis store: storage key -> time to live left, 0 for none
    o_pc,             \* position of the coroutine that uses the shared cache
    o_call,           \* the cache operation it runs and its arguments
    o_tx,             \* the bulk operation's pipeline is transactional (MULTI/EXEC)
    o_queue,          \* the pipeline's command stack: commands queued and not yet sent or run
    o_enq,            \* the steps added to the bulk operation, in the order of the calls
    o_base,           \* the store when the operation started
    o_ok,             \* no command of the operation has failed
    r_seen,           \* what the latest map_get_entries of a reader returned, and when
    now,              \* the clock, in ticks (int(time.time()) and the server's expiry clock)
    idle,             \* RedisSessionStore.idle_session_expiry_msec, 0 for None
    q_pc,             \* request -> position of the coroutine that serves it
    q_req,            \* request -> the request: route and credentials, Authorization header, cookie
    q_data,           \* request -> load_session local `session_save_data`
    q_sess,           \* request -> the aiohttp_session.Session of the request
    q_resp,           \* request -> the response being prepared
    s_issued,         \* the session identifiers login has created
    s_saved,          \* identifier -> `created` of its first save and the fields of its latest save
    s_out,            \* identifiers for which the save of an invalidated session has returned
    s_last,           \* what the latest step was, if it sent a response
    r_cfg,            \* the configuration and environment the latest init_redis call read
    a_pc,             \* position of the coroutine that calls APIService.start, then stop
    a_count,          \* redis_ref_count when start was called
    p_pc,             \* position of each start/stop strategy request
    p_left,           \* clock ticks left of the timeout of its publish_and_receive
    p_status,         \* status of the response to the request, or None
    p_quiet,          \* no engine listened or answered since the request was published
    e_sub,            \* an engine is subscribed to the request channel
    e_inbox,          \* commands the engine received and has not answered
    rsp               \* the message in flight on the response channel, or NoRsp

rvars == <<redis, redis_ref_count, conn, closes, pc, handle, acquires, releases>>
bvars == <<channel_handlers, lists, pubsub_channels, b_pc, b_arg, last_op, calls,
           l_pc, l_handlers, l_next, l_msg, l_running, l_registered, invoked, active,
           msg_seq, logged>>
lvars == <<l_pc, l_handlers, l_next, l_msg, l_running, l_registered, invoked, active,
           msg_seq, logged>>
cvars == <<c_pc, c_todo, c_log, pubsub_closed, c_before>>
kvars == <<k_val, k_ttl, o_pc, o_call, o_tx, o_queue, o_enq, o_base, o_ok, r_seen>>
svars == <<now, idle, q_pc, q_req, q_data, q_sess, q_resp, s_issued, s_saved, s_out, s_last>>
pvars == <<p_pc, p_left, p_status, p_quiet, e_sub, e_inbox, rsp>>
gvars == <<r_cfg, a_pc, a_count, pvars>>
dvars == <<kvars, svars, gvars>>
xvars == <<cvars, dvars>>
vars == <<rvars, bvars, xvars>>

BusTasks == 1..NumBusTasks
Channels == 1..NumChannels
ListenChannels == 1..NumListenChannels
Handlers == 1..NumHandlers
ListIds == 1..(NumChannels + 1)

\* Wire texts a publisher can send: one JSON document and one malformed text.
GoodText == "{\"a\":1}"
BadText == "{a"
Texts == {GoodText, BadText}

\* json.loads: the decoded document, or JSONDecodeError.
JsonLoads(text) ==
    IF text = GoodText THEN [ok |-> TRUE, value |-> [a |-> 1]]
                       ELSE [ok |-> FALSE, value |-> [a |-> 0]]

NoArg == [ch |-> None, h |-> None]
NoCall == [op |-> "none", ch |-> None, h |-> None, outcome |-> "none"]
NoMsg == [ch |-> None, text |-> GoodText]
NoRun == [h |-> None, ch |-> None, data |-> JsonLoads(BadText).value]

\* A started bus: no registrations, pub/sub connected, listener waiting.
BInit ==
    /\ channel_handlers = [c \in Channels |-> None]
    /\ lists = [i \in ListIds |-> <<>>]
    /\ pubsub_channels = {}
    /\ b_pc = [t \in BusTasks |-> "idle"]
    /\ b_arg = [t \in BusTasks |-> NoArg]
    /\ last_op = NoCall
    /\ calls = 0
    /\ l_pc = "recv"
    /\ l_handlers = None
    /\ l_next = 0
    /\ l_msg = NoMsg
    /\ l_running = NoRun
    /\ l_registered = <<>>
    /\ invoked = <<>>
    /\ active = {}
    /\ msg_seq = 0
    /\ logged = <<>>

RInit ==
    /\ redis = None
    /\ redis_ref_count = 0
    /\ conn = [c \in ConnIds |-> "unused"]
    /\ closes = [c \in ConnIds |-> 0]
    /\ pc = [t \in Tasks |-> "idle"]
    /\ handle = [t \in Tasks |-> None]
    /\ acquires = 0
    /\ releases = 0

\* The next connection object aioredis.from_url creates.
NewConn == CHOOSE c \in ConnIds : conn[c] = "unused" /\ \A d \in ConnIds : d < c => conn[d] # "unused"

\* What init_redis finds in `if redis is None`.
NoHandle == redis = None

\* init_redis, from entry to `return redis` or to the suspension in
\* `redis = await aioredis.from_url(...)`, for a configuration that holds a
\* usable "moonship.redis.url".
InitRedisEntry(t) ==
    /\ pc[t] = "idle"
    /\ acquires + Cardinality({u \in Tasks : pc[u] = "connecting"}) < MaxAcquires
    /\ IF NoHandle
       THEN /\ conn' = [conn EXCEPT ![NewConn] = "open"]
            /\ handle' = [handle EXCEPT ![t] = NewConn]
            /\ pc' = [pc EXCEPT ![t] = "connecting"]
            /\ UNCHANGED <<redis, redis_ref_count, acquires>>
       ELSE /\ redis_ref_count' = redis_ref_count + 1
            /\ handle' = [handle EXCEPT ![t] = redis]
            /\ pc' = [pc EXCEPT ![t] = "holding"]
            /\ acquires' = acquires + 1
            /\ UNCHANGED <<redis, conn>>
    /\ UNCHANGED <<closes, releases>>

\* init_redis called by a coroutine that does nothing else in that step.
InitRedisCall(t) ==
    /\ InitRedisEntry(t)
    /\ UNCHANGED bvars
    /\ UNCHANGED xvars

\* init_redis resumed after the await: assign the global, count, return it.
InitRedisResume(t) ==
    /\ pc[t] = "connecting"
    /\ redis' = handle[t]
    /\ redis_ref_count' = redis_ref_count + 1
    /\ pc' = [pc EXCEPT ![t] = "holding"]
    /\ acquires' = acquires + 1
    /\ UNCHANGED <<conn, closes, handle, releases>>
    /\ UNCHANGED bvars
    /\ UNCHANGED xvars

\* close_redis, from entry to its return or to the suspension in
\* `await redis.close()`.  Callers release only what they acquired.
CloseRedisEntry(t) ==
    /\ pc[t] = "holding"
    /\ redis_ref_count' = redis_ref_count - 1
    /\ releases' = releases + 1
    /\ IF redis_ref_count' = 0
       THEN /\ conn' = [conn EXCEPT ![redis] = "closing"]
            /\ closes' = [closes EXCEPT ![redis] = @ + 1]
            /\ handle' = [handle EXCEPT ![t] = redis]
            /\ pc' = [pc EXCEPT ![t] = "closing"]
       ELSE /\ handle' = [handle EXCEPT ![t] = None]
            /\ pc' = [pc EXCEPT ![t] = "idle"]
            /\ UNCHANGED <<conn, closes>>
    /\ UNCHANGED <<redis, acquires>>

\* close_redis called by a coroutine that does nothing else in that step.
CloseRedisCall(t) ==
    /\ CloseRedisEntry(t)
    /\ UNCHANGED bvars
    /\ UNCHANGED xvars

\* close_redis resumed after `await redis.close()`: the client it was called
\* on is closed; `redis.connection_pool.disconnect()` is then called on
\* whatever the global names now, and the coroutine suspends again.
CloseRedisDisconnect(t) ==
    /\ pc[t] = "closing"
    /\ conn' = [c \in ConnIds |-> IF c = handle[t] \/ c = redis THEN "closed" ELSE conn[c]]
    /\ pc' = [pc EXCEPT ![t] = "disconnecting"]
    /\ UNCHANGED <<redis, redis_ref_count, closes, handle, acquires, releases>>
    /\ UNCHANGED bvars
    /\ UNCHANGED xvars

\* close_redis resumed after `await redis.connection_pool.disconnect()`.
CloseRedisReturn(t) ==
    /\ pc[t] = "disconnecting"
    /\ pc' = [pc EXCEPT ![t] = "idle"]
    /\ handle' = [handle EXCEPT ![t] = None]
    /\ UNCHANGED <<redis, redis_ref_count, conn, closes, acquires, releases>>
    /\ UNCHANGED bvars
    /\ UNCHANGED xvars

RNext ==
    \E t \in Tasks :
        \/ InitRedisCall(t)
        \/ InitRedisResume(t)
        \/ CloseRedisCall(t)
        \/ CloseRedisDisconnect(t)
        \/ CloseRedisReturn(t)

(***************************************************************************)
(* The Redis store behind `redis`, as RedisSharedCache and                 *)
(* RedisSharedCacheBulkOp use it.  A value is a list, a set or a hash; a   *)
(* key whose container becomes empty does not exist.                       *)
(***************************************************************************)

CacheKeys == {"k1"}

\* Session identifiers (uuid4 hex strings) and str(None).
SessionIds == {"s1", "s2"}
NoId == "None"

\* RedisSessionStore._storage_key.
StorageKey(session_id) == "moonship:session:" \o session_id

SessionKeys == {StorageKey(i) : i \in SessionIds \cup {NoId}}
StorageKeys == CacheKeys \cup SessionKeys
Elems == {"e1", "e2"}
Fields == {"f1", "f2"}
Vals == {"v1", "v2"}

\* dict[str, str] arguments and hashes: functions from the fields present.
Maps(F, V) == UNION {[S -> V] : S \in SUBSET F}
EmptyMap == <<>>

NoValue == [t |-> "none", l |-> <<>>, s |-> {}, m |-> EmptyMap]
ListValue(l) == IF l = <<>> THEN NoValue ELSE [t |-> "list", l |-> l, s |-> {}, m |-> EmptyMap]
SetValue(e) == IF e = {} THEN NoValue ELSE [t |-> "set", l |-> <<>>, s |-> e, m |-> EmptyMap]
HashValue(m) == IF DOMAIN m = {} THEN NoValue ELSE [t |-> "hash", l |-> <<>>, s |-> {}, m |-> m]

\* The commands the pipeline methods queue and the client methods send.
Cmd(op, key, elem, entries, msec) ==
    [op |-> op, key |-> key, elem |-> elem, entries |-> entries, msec |-> msec]
NoElem == ""
Lpush(key, element) == Cmd("lpush", key, element, EmptyMap, 0)
Rpush(key, element) == Cmd("rpush", key, element, EmptyMap, 0)
Lpop(key) == Cmd("lpop", key, NoElem, EmptyMap, 0)
Rpop(key) == Cmd("rpop", key, NoElem, EmptyMap, 0)
Lrem(key, element) == Cmd("lrem", key, element, EmptyMap, 0)
Sadd(key, element) == Cmd("sadd", key, element, EmptyMap, 0)
Srem(key, element) == Cmd("srem", key, element, EmptyMap, 0)
Hset(key, entries) == Cmd("hset", key, NoElem, entries, 0)
Delete(key) == Cmd("delete", key, NoElem, EmptyMap, 0)
Pexpire(key, time_msec) == Cmd("pexpire", key, NoElem, EmptyMap, time_msec)

\* The outcome of one command on the value v of its key, with time to
\* live t: the new value and time to live, and whether the command
\* succeeded.  A command on a value of another type fails (WRONGTYPE) and
\* changes nothing; a key that stops existing loses its time to live.
Done(v, t) == [v |-> v, t |-> IF v = NoValue THEN 0 ELSE t, ok |-> TRUE]
WrongType(v, t) == [v |-> v, t |-> t, ok |-> FALSE]
MapMerge(m, e) == [f \in (DOMAIN m) \cup (DOMAIN e) |-> IF f \in DOMAIN e THEN e[f] ELSE m[f]]
RedisCmd(v, t, c) ==
    CASE c.op = "lpush" ->
            IF v.t \in {"none", "list"} THEN Done(ListValue(<<c.elem>> \o v.l), t) ELSE WrongType(v, t)
      [] c.op = "rpush" ->
            IF v.t \in {"none", "list"} THEN Done(ListValue(Append(v.l, c.elem)), t) ELSE WrongType(v, t)
      [] c.op = "lpop" ->
            IF v.t = "none" THEN Done(v, t)
            ELSE IF v.t = "list" THEN Done(ListValue(Tail(v.l)), t) ELSE WrongType(v, t)
      [] c.op = "rpop" ->
            IF v.t = "none" THEN Done(v, t)
            ELSE IF v.t = "list" THEN Done(ListValue(SubSeq(v.l, 1, Len(v.l) - 1)), t) ELSE WrongType(v, t)
      [] c.op = "lrem" ->
            IF v.t \in {"none", "list"}
            THEN Done(ListValue(SelectSeq(v.l, LAMBDA x : x # c.elem)), t) ELSE WrongType(v, t)
      [] c.op = "sadd" ->
            IF v.t \in {"none", "set"} THEN Done(SetValue(v.s \cup {c.elem}), t) ELSE WrongType(v, t)
      [] c.op = "srem" ->
            IF v.t \in {"none", "set"} THEN Done(SetValue(v.s \ {c.elem}), t) ELSE WrongType(v, t)
      [] c.op = "hset" ->
            IF v.t \in {"none", "hash"} THEN Done(HashValue(MapMerge(v.m, c.entries)), t) ELSE WrongType(v, t)
      [] c.op = "delete" -> Done(NoValue, 0)
      [] c.op = "pexpire" -> IF v.t = "none" THEN Done(v, t) ELSE Done(v, c.msec)

\* The store S after command c.
ExecOne(S, c) ==
    LET r == RedisCmd(S.val[c.key], S.ttl[c.key], c)
    IN  [val |-> [S.val EXCEPT ![c.key] = r.v],
         ttl |-> [S.ttl EXCEPT ![c.key] = r.t],
         ok |-> S.ok /\ r.ok]

\* The store after the commands of q, first to last.  A command that fails
\* does not stop the ones after it and does not undo the ones before it
\* (EXEC runs every queued command; Redis has no rollback).
RECURSIVE ExecAll(_, _)
ExecAll(S, q) == IF q = <<>> THEN S ELSE ExecAll(ExecOne(S, Head(q)), Tail(q))

\* HGETALL: the hash under the key, the empty dict for no key.
Hgetall(v) == [ok |-> v.t \in {"none", "hash"}, map |-> v.m]

NoCacheCall == [kind |-> "none", key |-> "", entries |-> EmptyMap, append |-> FALSE]
NoStore == [val |-> [k \in StorageKeys |-> NoValue], ttl |-> [k \in StorageKeys |-> 0], ok |-> TRUE]
NotRead == [at |-> "none", key |-> "", ok |-> TRUE, map |-> EmptyMap]

\* The cache is not in use and the store holds the values val with the
\* times to live ttl.
KInitWith(val, ttl) ==
    /\ k_val = val
    /\ k_ttl = ttl
    /\ o_pc = "idle"
    /\ o_call = NoCacheCall
    /\ o_tx = TRUE
    /\ o_queue = <<>>
    /\ o_enq = <<>>
    /\ o_base = NoStore
    /\ o_ok = TRUE
    /\ r_seen = NotRead

KInit == KInitWith(NoStore.val, NoStore.ttl)

(***************************************************************************)
(* The state of RedisSessionStore and of the requests APIService serves.   *)
(***************************************************************************)

Reqs == 1..NumReqs

\* An Authorization header: absent, or a text made of pieces, " " being
\* white space and every other piece a run of other characters.
HeaderPieces == {" ", "Bearer", "bearer", "s1"}
NoHeader == [present |-> FALSE, text |-> <<>>]
BearerHeader(token) == [present |-> TRUE, text |-> <<"Bearer", " ", token>>]

NoReq == [kind |-> "none", header |-> NoHeader, cookie |-> NoId, stale |-> FALSE]
NoSession == [identity |-> NoId, new |-> TRUE, created |-> 0, mapping |-> EmptyMap, changed |-> FALSE]
NoResp == [status |-> 0, handled |-> FALSE, cookie |-> "", loaded_new |-> FALSE]
NoLast == [op |-> "none", req |-> NoReq, sid |-> NoId, resp |-> NoResp]
NoSaved == [created |-> -1, mapping |-> EmptyMap]

\* No request is being served and no session has been created; the store
\* was constructed with idle_session_expiry_msec = expiry.
SInitWith(expiry) ==
    /\ now = 0
    /\ idle = expiry
    /\ q_pc = [r \in Reqs |-> "idle"]
    /\ q_req = [r \in Reqs |-> NoReq]
    /\ q_data = [r \in Reqs |-> EmptyMap]
    /\ q_sess = [r \in Reqs |-> NoSession]
    /\ q_resp = [r \in Reqs |-> NoResp]
    /\ s_issued = {}
    /\ s_saved = [i \in SessionIds |-> NoSaved]
    /\ s_out = {}
    /\ s_last = NoLast

\* APIService.start: RedisSessionStore(self.config), no idle expiry.
SInit == SInitWith(0)

SeqsUpTo(S, n) == UNION {[1..k -> S] : k \in 0..n}

\* The value a configuration holds under "moonship.redis.url": none, a
\* value that is not a string, or a string, given as its pieces.
UrlTexts == {<<"redis://host">>, <<"$", "REDIS_URL">>, <<"$">>}
NoUrl == [kind |-> "missing", text |-> <<>>]
NotStrUrl == [kind |-> "other", text |-> <<>>]
StrUrl(text) == [kind |-> "str", text |-> text]
UsableUrl == StrUrl(<<"redis://host">>)
ConfigUrls == {NoUrl, NotStrUrl} \cup {StrUrl(t) : t \in UrlTexts}

\* os.environ: the names set, each to a usable URL.
Environs == SUBSET {"REDIS_URL"}

\* No init_redis call has been made.
NoConfig == [url |-> UsableUrl, env |-> {}, called |-> FALSE, error |-> "none"]
NoRsp == "no response"

GInit ==
    /\ r_cfg = NoConfig
    /\ a_pc = "idle"
    /\ a_count = 0
    /\ p_pc = [r \in Reqs |-> "idle"]
    /\ p_left = [r \in Reqs |-> 0]
    /\ p_status = [r \in Reqs |-> None]
    /\ p_quiet = [r \in Reqs |-> FALSE]
    /\ e_sub = FALSE
    /\ e_inbox = 0
    /\ rsp = NoRsp

\* close has not been called.
CInit ==
    /\ c_pc = "idle"
    /\ c_todo = {}
    /\ c_log = <<>>
    /\ pubsub_closed = FALSE
    /\ c_before = [channels |-> {}, count |-> 0]

Init == RInit /\ BInit /\ CInit /\ GInit /\ KInit /\ SInit

SpecRedis == Init /\ [][RNext]_vars

(***************************************************************************)
(* Claims about the connection manager (checked under SpecRedis).          *)
(***************************************************************************)

\* No init_redis or close_redis call is in progress.
Quiescent == \A t \in Tasks : pc[t] \in {"idle", "holding"}

\* The connection the process-wide handle names is open.
ConnectionOpen == redis # None /\ conn[redis] = "open"

NetCount == acquires - releases

\* C1: between calls, the process-wide handle exists (is not None) if and
\* only if redis_ref_count > 0.
C1_HandleIffCounted ==
    Quiescent => ((redis # None) <=> (redis_ref_count > 0))

\* C2: between calls, the underlying connection is open exactly when
\* acquires minus releases is positive; no connection is closed more than
\* once, and once the count is back at zero the connection has been closed
\* exactly once.
C2_OpenIffNetPositive ==
    Quiescent =>
        /\ ConnectionOpen <=> (NetCount > 0)
        /\ \A c \in ConnIds : closes[c] <= 1
        /\ (redis # None /\ NetCount = 0) => closes[redis] = 1

\* C3: init_redis never returns a handle that is being or has been torn
\* down: at the step where a call returns, the returned connection is open.
C3_AcquireReturnsOpen ==
    [][\A t \in Tasks :
         (pc[t] # "holding" /\ pc'[t] = "holding") => conn'[handle'[t]] = "open"]_vars

\* C4: when two init_redis calls have completed with no release (whether
\* they ran one after the other or concurrently), exactly one connection
\* has been established, both callers hold that same handle, the count is
\* 2 and every established connection is the one the global names.
C4_ConcurrentAcquireShares ==
    (acquires = 2 /\ releases = 0 /\ \A t \in Tasks : pc[t] # "connecting") =>
        /\ Cardinality({c \in ConnIds : conn[c] # "unused"}) = 1
        /\ \A t \in Tasks : pc[t] = "holding" => handle[t] = redis
        /\ redis_ref_count = 2
        /\ \A c \in ConnIds : conn[c] # "unused" => c = redis

(***************************************************************************)
(* RedisMessageBus: subscription table.                                    *)
(*                                                                         *)
(* _channel_handlers maps a channel to a Python list object; the listener  *)
(* iterates over the same object that unsubscribe mutates, so list objects *)
(* are kept apart from the dict (lists), and an object nothing refers to   *)
(* any more is collected (reset to the empty sequence).                    *)
(*                                                                         *)
(* `await self._pubsub.subscribe(ch)` and `await self._pubsub.unsubscribe` *)
(* send their command on the one pub/sub connection when they are called   *)
(* and suspend the caller until the round trip is over: the transport's    *)
(* subscription set changes at the call, the caller resumes in a later     *)
(* step.                                                                   *)
(***************************************************************************)

Range(s) == {s[i] : i \in 1..Len(s)}

\* The list objects referred to by the dict chh or by the listener local ll.
Live(chh, ll) == ({chh[c] : c \in Channels} \cup {ll}) \ {None}

Collect(ls, chh, ll) == [i \in ListIds |-> IF i \in Live(chh, ll) THEN ls[i] ELSE <<>>]

\* The object `handlers = []` creates.
FreshList(chh, ll) ==
    CHOOSE i \in ListIds \ Live(chh, ll) : \A j \in ListIds \ Live(chh, ll) : i <= j

\* A faulty ListRemove: drops the last element whatever h is (list.pop()).
ListRemovePop(s, h) == SubSeq(s, 1, Len(s) - 1)

\* list.remove(h): the list without the first element equal to h.
ListRemove(s, h) ==
    LET i == CHOOSE k \in 1..Len(s) : s[k] = h /\ \A j \in 1..(k - 1) : s[j] # h
    IN  [k \in 1..(Len(s) - 1) |-> IF k < i THEN s[k] ELSE s[k + 1]]

\* The handlers registered for channel c, in registration order.
HandlersIn(chh, ls, c) == IF chh[c] = None THEN <<>> ELSE ls[chh[c]]

HandlersOf(c) == HandlersIn(channel_handlers, lists, c)

\* The coroutines are interchangeable: a new call runs in the first one
\* that is not suspended in a call.
FirstIdle(t) == b_pc[t] = "idle" /\ \A u \in BusTasks : u < t => b_pc[u] # "idle"

\* subscribe(channel, handler) up to its return or to the suspension in
\* `await self._pubsub.subscribe(channel)`.
SubscribeCall(t, ch, h) ==
    /\ FirstIdle(t)
    /\ calls < MaxCalls
    /\ calls' = calls + 1
    /\ IF channel_handlers[ch] = None
       THEN /\ pubsub_channels' = pubsub_channels \cup {ch}
            /\ b_pc' = [b_pc EXCEPT ![t] = "sub_wait"]
            /\ b_arg' = [b_arg EXCEPT ![t] = [ch |-> ch, h |-> h]]
            /\ last_op' = NoCall
            /\ UNCHANGED lists
       ELSE /\ lists' = [lists EXCEPT ![channel_handlers[ch]] =
                            IF h \in Range(@) THEN @ ELSE Append(@, h)]
            /\ last_op' = NoCall
            /\ UNCHANGED <<pubsub_channels, b_pc, b_arg>>
    /\ UNCHANGED <<channel_handlers, lvars>>
    /\ UNCHANGED rvars
    /\ UNCHANGED xvars

\* subscribe resumed: `handlers = []`, store it under the channel, append.
SubscribeResume(t) ==
    /\ b_pc[t] = "sub_wait"
    /\ LET ch == b_arg[t].ch
           cleared == [channel_handlers EXCEPT ![ch] = None]
           new == FreshList(cleared, l_handlers)
           chh == [channel_handlers EXCEPT ![ch] = new]
       IN  /\ channel_handlers' = chh
           /\ lists' = Collect([lists EXCEPT ![new] = <<b_arg[t].h>>], chh, l_handlers)
    /\ b_pc' = [b_pc EXCEPT ![t] = "idle"]
    /\ b_arg' = [b_arg EXCEPT ![t] = NoArg]
    /\ last_op' = NoCall
    /\ UNCHANGED <<pubsub_channels, calls, lvars>>
    /\ UNCHANGED rvars
    /\ UNCHANGED xvars

\* unsubscribe(channel, handler=None) up to its return, its exception or
\* the suspension in `await self._pubsub.unsubscribe(channel)`.
UnsubscribeCall(t, ch, h) ==
    /\ FirstIdle(t)
    /\ calls < MaxCalls
    /\ calls' = calls + 1
    /\ LET id == channel_handlers[ch]
           deleted == [channel_handlers EXCEPT ![ch] = None]
           \* the branch taken
           outcome ==
               IF h = None
               THEN IF id = None THEN "KeyError" ELSE "removed_all"
               ELSE IF id = None THEN "no_channel"
                    ELSE IF h \notin Range(lists[id]) THEN "ValueError"
                    ELSE IF Len(lists[id]) = 1 THEN "removed_last" ELSE "removed_one"
           ls == IF outcome \in {"removed_last", "removed_one"}
                 THEN [lists EXCEPT ![id] = ListRemove(@, h)]
                 ELSE lists
           chh == IF outcome \in {"removed_all", "removed_last"} THEN deleted ELSE channel_handlers
       IN  /\ last_op' = [op |-> "unsubscribe", ch |-> ch, h |-> h, outcome |-> outcome]
           /\ channel_handlers' = chh
           /\ lists' = Collect(ls, chh, l_handlers)
           /\ IF outcome \notin {"KeyError", "ValueError"} /\ chh[ch] = None
              THEN /\ pubsub_channels' = pubsub_channels \ {ch}
                   /\ b_pc' = [b_pc EXCEPT ![t] = "unsub_wait"]
                   /\ b_arg' = [b_arg EXCEPT ![t] = [ch |-> ch, h |-> None]]
              ELSE UNCHANGED <<pubsub_channels, b_pc, b_arg>>
    /\ UNCHANGED <<lvars>>
    /\ UNCHANGED rvars
    /\ UNCHANGED xvars

\* unsubscribe resumed after the transport round trip: it returns.
UnsubscribeResume(t) ==
    /\ b_pc[t] = "unsub_wait"
    /\ b_pc' = [b_pc EXCEPT ![t] = "idle"]
    /\ b_arg' = [b_arg EXCEPT ![t] = NoArg]
    /\ last_op' = NoCall
    /\ UNCHANGED <<channel_handlers, lists, pubsub_channels, calls,
                   l_pc, l_handlers, l_next, l_msg, l_running, l_registered, invoked, active,
           msg_seq, logged>>
    /\ UNCHANGED rvars
    /\ UNCHANGED xvars

(***************************************************************************)
(* RedisMessageBus._listen.  get_message returning None (`continue`) and   *)
(* the debug logging change no state and are not separate steps.           *)
(***************************************************************************)

\* The call `handler(msg_data, msg["channel"])` for message m.
Call(h, m) == [h |-> h, ch |-> m.ch, data |-> JsonLoads(m.text).value]

\* A faulty ListenerAwaitsMessage: the loop does not wait for the handler
\* it started (the handler call is not awaited).
ListenerNeverWaits == l_pc \in {"recv", "in_handler"}

\* _listen is suspended in `msg = await self._pubsub.get_message(timeout=None)`.
ListenerAwaitsMessage == l_pc = "recv"

\* A message with wire text `text` arrives on a channel the transport is
\* subscribed to: look up the handlers, decode, call the first handler.
\* A text json.loads rejects is logged by `except Exception`.
Receive(ch, text) ==
    /\ ListenerAwaitsMessage
    /\ msg_seq < MaxMsgs
    /\ ch \in pubsub_channels
    /\ msg_seq' = msg_seq + 1
    /\ LET m == [ch |-> ch, text |-> text]
           id == channel_handlers[ch]
       IN  IF id # None /\ JsonLoads(text).ok /\ Len(lists[id]) > 0
           THEN /\ l_pc' = "in_handler"
                /\ l_msg' = m
                /\ l_registered' = lists[id]
                /\ l_handlers' = id
                /\ l_next' = 2
                /\ l_running' = Call(lists[id][1], m)
                /\ invoked' = <<lists[id][1]>>
                /\ active' = active \cup {[msg |-> msg_seq + 1, h |-> lists[id][1]]}
                /\ UNCHANGED logged
           ELSE /\ l_pc' = "recv"
                /\ l_msg' = NoMsg
                /\ l_registered' = <<>>
                /\ l_handlers' = None
                /\ l_next' = 0
                /\ l_running' = NoRun
                /\ invoked' = <<>>
                /\ logged' = IF id # None /\ ~JsonLoads(text).ok
                             THEN Append(logged, "JSONDecodeError") ELSE logged
                /\ UNCHANGED active
    /\ lists' = Collect(lists, channel_handlers, l_handlers')
    /\ last_op' = [op |-> "receive", ch |-> ch, h |-> None,
                   outcome |-> IF JsonLoads(text).ok THEN "decodable" ELSE "malformed"]
    /\ UNCHANGED <<channel_handlers, pubsub_channels, b_pc, b_arg, calls>>
    /\ UNCHANGED rvars
    /\ UNCHANGED xvars

\* The dispatch of msg is over: _listen goes back to get_message.
EndDispatch ==
    /\ l_pc' = "recv"
    /\ l_msg' = NoMsg
    /\ l_registered' = <<>>
    /\ l_handlers' = None
    /\ l_next' = 0
    /\ l_running' = NoRun
    /\ invoked' = <<>>
    /\ lists' = Collect(lists, channel_handlers, None)

\* `await handler(msg_data, msg["channel"])` returns: the for loop takes the
\* next element of the list object, if there is one, and calls it.
HandlerReturn ==
    /\ l_pc = "in_handler"
    /\ LET done == active \ {[msg |-> msg_seq, h |-> l_running.h]}
       IN  IF l_next <= Len(lists[l_handlers])
           THEN LET h == lists[l_handlers][l_next]
                IN  /\ l_running' = Call(h, l_msg)
                    /\ invoked' = Append(invoked, h)
                    /\ active' = done \cup {[msg |-> msg_seq, h |-> h]}
                    /\ l_next' = l_next + 1
                    /\ UNCHANGED <<l_pc, l_handlers, l_msg, l_registered, lists>>
           ELSE /\ active' = done
                /\ EndDispatch
    /\ last_op' = NoCall
    /\ UNCHANGED <<channel_handlers, pubsub_channels, b_pc, b_arg, calls, msg_seq, logged>>
    /\ UNCHANGED rvars
    /\ UNCHANGED xvars

\* A faulty HandlerRaise: the exception is not caught inside the while
\* loop and ends the listener task.
HandlerRaiseEndsLoop ==
    /\ l_pc = "in_handler"
    /\ active' = active \ {[msg |-> msg_seq, h |-> l_running.h]}
    /\ logged' = Append(logged, "HandlerError")
    /\ l_pc' = "done"
    /\ UNCHANGED <<l_msg, l_registered, l_handlers, l_next, l_running, invoked, lists>>
    /\ last_op' = NoCall
    /\ UNCHANGED <<channel_handlers, pubsub_channels, b_pc, b_arg, calls, msg_seq>>
    /\ UNCHANGED rvars
    /\ UNCHANGED xvars

\* The handler raises an exception other than CancelledError: `except
\* Exception` around the for loop logs it, and the while loop goes on.
HandlerRaise ==
    /\ l_pc = "in_handler"
    /\ active' = active \ {[msg |-> msg_seq, h |-> l_running.h]}
    /\ logged' = Append(logged, "HandlerError")
    /\ EndDispatch
    /\ last_op' = NoCall
    /\ UNCHANGED <<channel_handlers, pubsub_channels, b_pc, b_arg, calls, msg_seq>>
    /\ UNCHANGED rvars
    /\ UNCHANGED xvars

\* The calls other coroutines make on the bus, on the channels chs.
TableNext(chs) ==
    \/ \E t \in BusTasks, ch \in chs, h \in Handlers : SubscribeCall(t, ch, h)
    \/ \E t \in BusTasks : SubscribeResume(t)
    \/ \E t \in BusTasks, ch \in chs, h \in Handlers \cup {None} : UnsubscribeCall(t, ch, h)
    \/ \E t \in BusTasks : UnsubscribeResume(t)

\* The steps of the listener task, for messages on the channels chs.
ListenNext(chs) ==
    \/ \E ch \in chs, text \in Texts : Receive(ch, text)
    \/ HandlerReturn
    \/ HandlerRaise

\* The subscription table alone, no message arriving.
SpecBus == Init /\ [][TableNext(Channels)]_vars

\* The listener together with subscribe / unsubscribe calls.
SpecListen == Init /\ [][TableNext(ListenChannels) \/ ListenNext(ListenChannels)]_vars

(***************************************************************************)
(* Claims about the message bus.                                           *)
(***************************************************************************)

\* No subscribe or unsubscribe call is in progress.
TableQuiescent == \A t \in BusTasks : b_pc[t] = "idle"

\* C5 (SpecBus): once every subscribe / unsubscribe call has completed, the
\* channels subscribed at the transport are exactly the channels with at
\* least one registered handler.
C5_TransportMatchesHandlers ==
    TableQuiescent => pubsub_channels = {c \in Channels : Len(HandlersOf(c)) >= 1}

\* The step ends the dispatch of the message being handled.
DispatchEnds == l_pc = "in_handler" /\ l_pc' = "recv"

\* The step is a handler raising.
HandlerRaises == l_pc = "in_handler" /\ Len(logged') = Len(logged) + 1

\* The registrations of the message's channel are as they were on receipt.
RegistrationsKept == HandlersOf(l_msg.ch) = l_registered

\* C6 (SpecListen): for a received message, every handler registered for
\* its channel is called exactly once, in registration order, and each call
\* gets the decoded payload and the channel name.
C6_AllHandlersInOrder ==
    [][/\ (DispatchEnds /\ RegistrationsKept) => invoked = l_registered
       /\ l_pc' = "in_handler" =>
            /\ JsonLoads(l_msg'.text).ok
            /\ l_running'.data = JsonLoads(l_msg'.text).value
            /\ l_running'.ch = l_msg'.ch]_vars

\* C7 (SpecListen): when a handler raises, every handler registered after
\* it on the channel is still called for that message.
C7_RaiseDoesNotBlockOthers ==
    [][(HandlerRaises /\ RegistrationsKept) =>
         \A i, j \in 1..Len(l_registered) :
            (l_registered[i] = l_running.h /\ i < j) =>
                l_registered[j] \in Range(invoked)]_vars

\* C8 (SpecListen): a handler raising leaves the registrations and the
\* transport subscriptions as they were and the listener waiting for the
\* next message; a later decodable message on a channel with handlers is
\* dispatched, starting with the channel's first handler.
C8_RaiseKeepsListenerAndSubscriptions ==
    [][/\ HandlerRaises =>
            /\ channel_handlers' = channel_handlers
            /\ \A c \in Channels : HandlersIn(channel_handlers', lists', c) = HandlersOf(c)
            /\ pubsub_channels' = pubsub_channels
            /\ l_pc' = "recv"
       /\ (/\ "HandlerError" \in Range(logged)
           /\ last_op'.op = "receive"
           /\ last_op'.outcome = "decodable"
           /\ HandlersOf(last_op'.ch) # <<>>) =>
                /\ l_pc' = "in_handler"
                /\ l_running'.h = HandlersOf(last_op'.ch)[1]
                /\ l_running'.ch = last_op'.ch]_vars

\* A handler raised for an earlier message and a handler of a later message
\* is running.
C8_Witness ==
    /\ "HandlerError" \in Range(logged)
    /\ l_pc = "in_handler"
    /\ channel_handlers[l_msg.ch] # None

\* C9 (SpecListen): every handler call in progress belongs to the message
\* received last, and at most one is in progress: all calls for a message
\* are over before any call for a later message starts.
C9_MessagesHandledInArrivalOrder ==
    /\ Cardinality(active) <= 1
    /\ \A a \in active : a.msg = msg_seq

\* The first message's handler is over (it raised) and the second handler
\* of the second message is running.
C9_Witness ==
    /\ msg_seq = 2
    /\ "HandlerError" \in Range(logged)
    /\ Len(invoked) = 2
    /\ active = {[msg |-> 2, h |-> l_running.h]}

\* The step is a subscribe or unsubscribe call (not a resumption, not a
\* step of the listener).
TableCallStep == calls' = calls + 1

\* C10 (SpecBus): unsubscribe(channel) on a channel with handlers removes
\* them all and unsubscribes at the transport; unsubscribe(channel, handler)
\* with a registered handler removes that handler only, unsubscribes at the
\* transport when no handler is left and otherwise leaves the transport
\* alone; no other channel is touched.
C10_UnsubscribeEffect ==
    [][(TableCallStep /\ last_op'.op = "unsubscribe") =>
         LET ch == last_op'.ch
             h == last_op'.h
             before == HandlersOf(ch)
         IN  /\ (h = None /\ before # <<>>) =>
                    /\ channel_handlers'[ch] = None
                    /\ ch \notin pubsub_channels'
             /\ (h # None /\ h \in Range(before)) =>
                    /\ HandlersIn(channel_handlers', lists', ch) = SelectSeq(before, LAMBDA x : x # h)
                    /\ IF Len(before) = 1
                       THEN channel_handlers'[ch] = None /\ ch \notin pubsub_channels'
                       ELSE channel_handlers'[ch] # None /\ pubsub_channels' = pubsub_channels
             /\ \A c \in Channels \ {ch} :
                    /\ HandlersIn(channel_handlers', lists', c) = HandlersOf(c)
                    /\ (c \in pubsub_channels') <=> (c \in pubsub_channels)]_vars

\* unsubscribe(channel, handler) has just removed one of several handlers:
\* the others are still registered and the channel is still subscribed.
C10_Witness ==
    /\ last_op.op = "unsubscribe"
    /\ last_op.outcome = "removed_one"
    /\ TableQuiescent
    /\ HandlersOf(last_op.ch) # <<>>
    /\ last_op.h \notin Range(HandlersOf(last_op.ch))
    /\ last_op.ch \in pubsub_channels

(***************************************************************************)
(* RedisMessageBus.close and the end of the listener task.                 *)
(***************************************************************************)

\* The coroutine that called start() on the bus: it holds the reference
\* init_redis gave it and is the one that calls close().
BusHolder == CHOOSE t \in Tasks : \A u \in Tasks : t <= u

\* The connection object the first aioredis.from_url call created.
FirstConn == CHOOSE c \in ConnIds : \A d \in ConnIds : c <= d

\* The connection manager after start(): n components (the bus among them)
\* hold the shared connection.
RStarted(n) ==
    /\ redis = FirstConn
    /\ redis_ref_count = n
    /\ conn = [c \in ConnIds |-> IF c = FirstConn THEN "open" ELSE "unused"]
    /\ closes = [c \in ConnIds |-> 0]
    /\ pc = [t \in Tasks |-> IF t <= n THEN "holding" ELSE "idle"]
    /\ handle = [t \in Tasks |-> IF t <= n THEN FirstConn ELSE None]
    /\ acquires = n
    /\ releases = 0

InitStarted == (\E n \in Tasks : RStarted(n)) /\ BInit /\ CInit /\ GInit /\ KInit /\ SInit

\* `self._listen_task.cancel()`: a task that has not finished gets
\* CancelledError at the await it is suspended in.
CancelListener ==
    l_pc' = IF l_pc \in {"recv", "in_handler"} THEN "cancelling" ELSE l_pc

\* `await self.unsubscribe(channel)` inside close, up to the KeyError of
\* `del self._channel_handlers[channel]` or to the suspension in
\* `await self._pubsub.unsubscribe(channel)`.
CloseUnsubscribe(ch) ==
    IF channel_handlers[ch] = None
    THEN /\ c_pc' = "raised"
         /\ UNCHANGED <<channel_handlers, lists, pubsub_channels, c_log>>
    ELSE LET deleted == [channel_handlers EXCEPT ![ch] = None]
         IN  /\ channel_handlers' = deleted
             /\ lists' = Collect(lists, deleted, l_handlers)
             /\ pubsub_channels' = pubsub_channels \ {ch}
             /\ c_pc' = "unsub_wait"
             /\ c_log' = Append(c_log, [ev |-> "unsubscribe", ch |-> ch])

\* `await self._pubsub.close()` up to its suspension: the transport drops
\* its connection and forgets its channels.
ClosePubsub ==
    /\ pubsub_closed' = TRUE
    /\ pubsub_channels' = {}
    /\ c_pc' = "pubsub_close_wait"
    /\ c_log' = Append(c_log, [ev |-> "pubsub_close", ch |-> None])
    /\ UNCHANGED <<channel_handlers, lists>>

\* The for loop of close takes the next key of its snapshot, or, after
\* the last one, close goes on to `await self._pubsub.close()`.  The keys
\* are visited in the order of the dict, which the model does not record:
\* any order.
CloseLoop(todo) ==
    IF todo = {}
    THEN ClosePubsub /\ UNCHANGED c_todo
    ELSE \E ch \in todo :
            /\ c_todo' = todo \ {ch}
            /\ CloseUnsubscribe(ch)
            /\ UNCHANGED pubsub_closed

\* close() from entry to its first suspension.
CloseCall ==
    /\ c_pc = "idle"
    /\ LET keys == {c \in Channels : channel_handlers[c] # None}
       IN  /\ c_before' = [channels |-> keys, count |-> redis_ref_count]
           /\ CloseLoop(keys)
    /\ last_op' = NoCall
    /\ UNCHANGED <<b_pc, b_arg, calls, lvars>>
    /\ UNCHANGED rvars
    /\ UNCHANGED dvars

\* close resumed after `await self.unsubscribe(channel)`.
CloseUnsubscribeResume ==
    /\ c_pc = "unsub_wait"
    /\ CloseLoop(c_todo)
    /\ last_op' = NoCall
    /\ UNCHANGED <<b_pc, b_arg, calls, lvars, c_before>>
    /\ UNCHANGED rvars
    /\ UNCHANGED dvars

\* close resumed after `await self._pubsub.close()`: cancel the listener
\* task and enter close_redis, up to its return or first suspension.
ClosePubsubResume ==
    /\ c_pc = "pubsub_close_wait"
    /\ CancelListener
    /\ CloseRedisEntry(BusHolder)
    /\ c_pc' = "close_redis"
    /\ c_log' = c_log \o <<[ev |-> "cancel", ch |-> None], [ev |-> "close_redis", ch |-> None]>>
    /\ last_op' = NoCall
    /\ UNCHANGED <<channel_handlers, lists, pubsub_channels, b_pc, b_arg, calls,
                   l_handlers, l_next, l_msg, l_running, l_registered, invoked, active,
                   msg_seq, logged, c_todo, pubsub_closed, c_before>>
    /\ UNCHANGED dvars

\* A faulty ListenerCancelled: `except Exception` around the handlers
\* catches a CancelledError raised inside a handler too, logs it, and the
\* while loop goes on.
ListenerCancelledIsLogged ==
    /\ l_pc = "cancelling"
    /\ IF l_running # NoRun
       THEN /\ logged' = Append(logged, "CancelledError")
            /\ EndDispatch
       ELSE /\ l_pc' = "finished"
            /\ UNCHANGED <<l_msg, l_registered, l_handlers, l_next, l_running, invoked, lists, logged>>
    /\ active' = {}
    /\ last_op' = NoCall
    /\ UNCHANGED <<channel_handlers, pubsub_channels, b_pc, b_arg, calls, msg_seq>>
    /\ UNCHANGED rvars
    /\ UNCHANGED xvars

\* The listener task runs again after cancel(): CancelledError is raised
\* in get_message or in the handler, re-raised by `except
\* asyncio.CancelledError: raise`, and `except asyncio.CancelledError: pass`
\* around the while loop ends _listen.
ListenerCancelled ==
    /\ l_pc = "cancelling"
    /\ l_pc' = "finished"
    /\ l_msg' = NoMsg
    /\ l_registered' = <<>>
    /\ l_handlers' = None
    /\ l_next' = 0
    /\ l_running' = NoRun
    /\ invoked' = <<>>
    /\ lists' = Collect(lists, channel_handlers, None)
    /\ active' = {}
    /\ last_op' = NoCall
    /\ UNCHANGED <<channel_handlers, pubsub_channels, b_pc, b_arg, calls, msg_seq, logged>>
    /\ UNCHANGED rvars
    /\ UNCHANGED xvars

\* `await self._pubsub.get_message(timeout=None)` raises an exception other
\* than CancelledError (the connection fails): the call is outside the
\* inner try, `except asyncio.CancelledError` does not match, and the
\* exception ends the task.  Nothing is logged.
GetMessageRaises ==
    /\ l_pc = "recv"
    /\ l_pc' = "failed"
    /\ last_op' = NoCall
    /\ UNCHANGED <<channel_handlers, lists, pubsub_channels, b_pc, b_arg, calls,
                   l_handlers, l_next, l_msg, l_running, l_registered, invoked, active,
                   msg_seq, logged>>
    /\ UNCHANGED rvars
    /\ UNCHANGED xvars

\* close() is called when no subscribe or unsubscribe call is in progress,
\* and none is made once it has been called.
NoClose == c_pc = "idle"

\* The handlers are interchangeable: a channel gets them in ascending order.
NextHandler(ch, h) ==
    /\ h \notin Range(HandlersOf(ch))
    /\ \A g \in Handlers : g < h => g \in Range(HandlersOf(ch))

CloseNext ==
    \/ \E t \in BusTasks, ch \in Channels, h \in Handlers :
            NoClose /\ NextHandler(ch, h) /\ SubscribeCall(t, ch, h)
    \/ \E t \in BusTasks : SubscribeResume(t)
    \/ \E ch \in ListenChannels, text \in Texts : Receive(ch, text)
    \/ HandlerReturn
    \/ HandlerRaise
    \/ GetMessageRaises
    \/ (\A t \in BusTasks : b_pc[t] = "idle") /\ CloseCall
    \/ CloseUnsubscribeResume
    \/ ClosePubsubResume
    \/ CloseRedisDisconnect(BusHolder)
    \/ CloseRedisReturn(BusHolder)
    \/ ListenerCancelled

\* A started bus that is used and then closed.
SpecClose == InitStarted /\ [][CloseNext]_vars

\* The event loop runs a task that has been cancelled.
SpecCloseFair == SpecClose /\ WF_vars(ListenerCancelled)

(***************************************************************************)
(* Claims about close and about the exceptions of the listener loop.       *)
(***************************************************************************)

\* close() has returned to its caller.
CloseReturned == c_pc = "close_redis" /\ pc[BusHolder] = "idle"

ListenerEnded == l_pc \in {"finished", "failed"}

\* What close logs after its unsubscribe calls.
CloseTail ==
    <<[ev |-> "pubsub_close", ch |-> None], [ev |-> "cancel", ch |-> None],
      [ev |-> "close_redis", ch |-> None]>>

C20_ListenerSurvivesExceptions ==
    [][/\ (l_pc = "recv" /\ l_pc' \notin {"recv", "in_handler", "cancelling"}) =>
              /\ Len(logged') = Len(logged) + 1
              /\ l_pc' = "recv"
       /\ HandlerRaises => l_pc' = "recv"
       /\ (last_op'.op = "receive" /\ last_op'.outcome = "malformed") =>
              /\ l_pc' = "recv"
              /\ active' = active
              /\ channel_handlers[last_op'.ch] # None => logged' = Append(logged, "JSONDecodeError")
       /\ (l_pc # "finished" /\ l_pc' = "finished") => l_pc = "cancelling"]_vars

(***************************************************************************)
(* RedisSharedCacheBulkOp and RedisSharedCache.map_put / map_get_entries.  *)
(* One coroutine uses the cache; readers are other clients of the store.   *)
(***************************************************************************)

\* The values a key can hold.
StoreValues ==
    {ListValue(l) : l \in SeqsUpTo(Elems, MaxListLen)}
        \cup {SetValue(e) : e \in SUBSET Elems}
        \cup {HashValue(m) : m \in Maps(Fields, Vals)}

\* The cache has been opened; the store holds any values.
InitCache ==
    /\ RStarted(1)
    /\ BInit
    /\ CInit
    /\ GInit
    /\ SInit
    /\ \E val \in [CacheKeys -> StoreValues], ttl \in [CacheKeys -> 0..MaxTtl] :
            /\ \A k \in CacheKeys : val[k] = NoValue => ttl[k] = 0
            /\ KInitWith([k \in StorageKeys |-> IF k \in CacheKeys THEN val[k] ELSE NoValue],
                         [k \in StorageKeys |-> IF k \in CacheKeys THEN ttl[k] ELSE 0])

Store == [val |-> k_val, ttl |-> k_ttl, ok |-> o_ok]

\* The steps a caller can add to a bulk operation.
BulkSteps ==
    UNION {{Lpush(k, e), Rpush(k, e), Lrem(k, e), Sadd(k, e), Srem(k, e)} : k \in CacheKeys, e \in Elems}
        \cup UNION {{Lpop(k), Rpop(k), Delete(k)} : k \in CacheKeys}
        \cup {Hset(k, m) : k \in CacheKeys, m \in {EmptyMap, [f1 |-> "v1"], [f1 |-> "v2", f2 |-> "v2"]}}
        \cup {Pexpire(k, n) : k \in CacheKeys, n \in 1..MaxTtl}

\* A faulty PipelineCommand: the command goes to the front of the stack.
PipelineCommandFirst(q, c) == <<c>> \o q

\* pipeline.<command>(...): the command is appended to the command stack.
PipelineCommand(q, c) == Append(q, c)

\* A faulty StartBulkDefault: start_bulk(self, transaction=False).
StartBulkNoTransaction == FALSE

\* The default of start_bulk(self, transaction=True).
StartBulkDefault == TRUE

\* start_bulk(transaction): a pipeline with an empty command stack.
StartBulk(tx) ==
    /\ o_pc = "idle"
    /\ o_pc' = "building"
    /\ o_call' = [NoCacheCall EXCEPT !.kind = "bulk"]
    /\ o_tx' = tx
    /\ o_base' = Store
    /\ UNCHANGED <<k_val, k_ttl, o_queue, o_enq, o_ok, r_seen>>
    /\ UNCHANGED <<rvars, bvars, cvars, svars, gvars>>

\* The lists of the model stay within MaxListLen.
PushFits(c) ==
    c.op \in {"lpush", "rpush"} =>
        Len(k_val[c.key].l)
            + Cardinality({i \in 1..Len(o_queue) : o_queue[i].op \in {"lpush", "rpush"}}) < MaxListLen

\* One of list_push_head ... expire on the bulk operation.  hset raises
\* DataError for an empty mapping, before anything is queued.
BulkOpStep(c) ==
    /\ o_pc = "building"
    /\ Len(o_enq) < MaxQueue
    /\ PushFits(c)
    /\ IF c.op = "hset" /\ c.entries = EmptyMap
       THEN /\ o_pc' = "returned"
            /\ o_ok' = FALSE
            /\ UNCHANGED <<o_queue, o_enq>>
       ELSE /\ o_queue' = PipelineCommand(o_queue, c)
            /\ o_enq' = Append(o_enq, c)
            /\ UNCHANGED <<o_pc, o_ok>>
    /\ UNCHANGED <<k_val, k_ttl, o_call, o_tx, o_base, r_seen>>
    /\ UNCHANGED <<rvars, bvars, cvars, svars, gvars>>

\* `await self.pipeline.execute()` up to its suspension, for the command
\* stack q: a transactional pipeline is run by the server as one MULTI/EXEC
\* block; the commands of a non-transactional one are run one by one,
\* with the commands of other clients in between.
PipelineExecute(q, tx) ==
    /\ o_pc' = "executing"
    /\ IF q = <<>>
       THEN /\ o_queue' = q
            /\ UNCHANGED <<k_val, k_ttl, o_ok>>
       ELSE LET S == IF tx THEN ExecAll(Store, q) ELSE ExecOne(Store, Head(q))
            IN  /\ k_val' = S.val
                /\ k_ttl' = S.ttl
                /\ o_ok' = S.ok
                /\ o_queue' = IF tx THEN <<>> ELSE Tail(q)

\* RedisSharedCacheBulkOp.execute.
BulkExecute ==
    /\ o_pc = "building"
    /\ PipelineExecute(o_queue, o_tx)
    /\ UNCHANGED <<o_call, o_tx, o_enq, o_base, r_seen>>
    /\ UNCHANGED <<rvars, bvars, cvars, svars, gvars>>

\* The server runs the next command of a non-transactional pipeline.
PipelineNext ==
    /\ o_pc = "executing"
    /\ o_queue # <<>>
    /\ LET S == ExecOne(Store, Head(o_queue))
       IN  /\ k_val' = S.val
           /\ k_ttl' = S.ttl
           /\ o_ok' = S.ok
    /\ o_queue' = Tail(o_queue)
    /\ UNCHANGED <<o_pc, o_call, o_tx, o_enq, o_base, r_seen>>
    /\ UNCHANGED <<rvars, bvars, cvars, svars, gvars>>

\* The replies have arrived: the awaited call returns, or raises the
\* error of the first command that failed.
CacheOpReturn ==
    /\ o_pc = "executing"
    /\ o_queue = <<>>
    /\ o_pc' = "returned"
    /\ UNCHANGED <<k_val, k_ttl, o_call, o_tx, o_queue, o_enq, o_base, o_ok, r_seen>>
    /\ UNCHANGED <<rvars, bvars, cvars, svars, gvars>>

\* RedisSharedCache.map_put up to its suspension, or to the DataError hset
\* raises for an empty mapping.
MapPutCall(key, entries, append) ==
    /\ o_pc = "idle"
    /\ o_call' = [kind |-> "map_put", key |-> key, entries |-> entries, append |-> append]
    /\ o_base' = Store
    /\ IF entries = EmptyMap
       THEN /\ o_pc' = "returned"
            /\ o_ok' = FALSE
            /\ UNCHANGED <<k_val, k_ttl, o_tx, o_queue, o_enq>>
       ELSE IF append
            THEN /\ PipelineExecute(<<Hset(key, entries)>>, TRUE)
                 /\ o_enq' = <<Hset(key, entries)>>
                 /\ UNCHANGED o_tx
            ELSE /\ o_tx' = StartBulkDefault
                 /\ PipelineExecute(PipelineCommand(PipelineCommand(<<>>, Delete(key)),
                                                    Hset(key, entries)), StartBulkDefault)
                 /\ o_enq' = <<Delete(key), Hset(key, entries)>>
    /\ UNCHANGED r_seen
    /\ UNCHANGED <<rvars, bvars, cvars, svars, gvars>>

\* RedisSharedCache.map_get_entries by a reader: one HGETALL.
MapGetEntries(key) ==
    /\ r_seen' = [at |-> o_pc, key |-> key, ok |-> Hgetall(k_val[key]).ok, map |-> Hgetall(k_val[key]).map]
    /\ UNCHANGED <<k_val, k_ttl, o_pc, o_call, o_tx, o_queue, o_enq, o_base, o_ok>>
    /\ UNCHANGED <<rvars, bvars, cvars, svars, gvars>>

BulkNext ==
    \/ \E tx \in BOOLEAN : StartBulk(tx)
    \/ \E c \in BulkSteps : BulkOpStep(c)
    \/ BulkExecute
    \/ PipelineNext
    \/ CacheOpReturn

MapPutNext ==
    \/ \E key \in CacheKeys, entries \in Maps(Fields, Vals), append \in BOOLEAN :
            MapPutCall(key, entries, append)
    \/ CacheOpReturn
    \/ \E key \in CacheKeys : MapGetEntries(key)

\* One bulk operation on a store that holds anything.
SpecBulk == InitCache /\ [][BulkNext]_vars

\* One map_put call and the reads of other clients.
SpecMapPut == InitCache /\ [][MapPutNext]_vars

(***************************************************************************)
(* Claims about the shared cache.                                          *)
(***************************************************************************)

MapPutEnded == o_call.kind = "map_put" /\ o_pc = "returned"
ReadAfterMapPut == MapPutEnded /\ r_seen.at = "returned" /\ r_seen.key = o_call.key
PriorValue == o_base.val[o_call.key]

\* C12: a map_get_entries(key) that follows map_put(key, entries,
\* append=False) returns exactly entries; one that follows map_put(key,
\* entries, append=True) on a key that held a map (or nothing) returns
\* every prior field not in entries with its prior value and the fields of
\* entries with their new values, and no other field.
C12_MapPutThenRead ==
    ReadAfterMapPut =>
        IF ~o_call.append
        THEN r_seen.ok /\ r_seen.map = o_call.entries
        ELSE PriorValue.t \in {"none", "hash"} =>
                /\ r_seen.ok
                /\ DOMAIN r_seen.map = (DOMAIN PriorValue.m) \cup (DOMAIN o_call.entries)
                /\ \A f \in (DOMAIN PriorValue.m) \ (DOMAIN o_call.entries) : r_seen.map[f] = PriorValue.m[f]
                /\ \A f \in DOMAIN o_call.entries : r_seen.map[f] = o_call.entries[f]

\* C13: while map_put(key, entries, append=False) runs and after it, the
\* store holds under key, and a reader gets from map_get_entries(key),
\* either what was there before the call or exactly entries.
C13_MapPutReplacesAtomically ==
    (o_call.kind = "map_put" /\ ~o_call.append) =>
        /\ k_val[o_call.key] \in {PriorValue, HashValue(o_call.entries)}
        /\ (r_seen.at \in {"executing", "returned"} /\ r_seen.key = o_call.key) =>
                \/ [ok |-> r_seen.ok, map |-> r_seen.map] = Hgetall(PriorValue)
                \/ r_seen.ok /\ r_seen.map = o_call.entries

\* A reader has read exactly entries while the call that replaces a map
\* sharing a field with entries, and holding another one, is suspended.
C13_Witness ==
    /\ o_call.kind = "map_put"
    /\ ~o_call.append
    /\ o_pc = "executing"
    /\ r_seen.at = "executing"
    /\ r_seen.map = o_call.entries
    /\ PriorValue.t = "hash"
    /\ (DOMAIN PriorValue.m) \cap (DOMAIN o_call.entries) # {}
    /\ (DOMAIN PriorValue.m) \ (DOMAIN o_call.entries) # {}

\* The store after the first n of the steps q, taken in the order of q.
RECURSIVE StepsInOrder(_, _, _)
StepsInOrder(S, q, n) == IF n = 0 THEN S ELSE ExecOne(StepsInOrder(S, q, n - 1), q[n])

SameStore(S) == k_val = S.val /\ k_ttl = S.ttl

\* C14: while a bulk operation is being built the store is as it was when
\* start_bulk was called; once execute() has been called the store is the
\* result of the steps run so far, applied in the order they were added.
C14_BulkDeferredInOrder ==
    o_call.kind = "bulk" =>
        /\ o_pc = "building" => SameStore(o_base)
        /\ o_pc \in {"executing", "returned"} =>
                SameStore(StepsInOrder(o_base, o_enq, Len(o_enq) - Len(o_queue)))

\* delete, then map_put, has been executed on a key that held a map: the
\* key holds the new map (the other order would leave no key).
C14_Witness ==
    /\ o_call.kind = "bulk"
    /\ o_pc = "returned"
    /\ o_ok
    /\ \E k \in CacheKeys :
            /\ o_enq = <<Delete(k), Hset(k, [f1 |-> "v1"])>>
            /\ o_base.val[k] = HashValue([f1 |-> "v2", f2 |-> "v2"])
            /\ k_val[k] = HashValue([f1 |-> "v1"])

\* C15: when a step of a bulk operation created with transaction=True has
\* failed, the store is as it was when the operation started: no step
\* has had an effect.
C15_FailedTransactionLeavesNothing ==
    (o_call.kind = "bulk" /\ o_tx /\ ~o_ok) => SameStore(o_base)

(***************************************************************************)
(* RedisSessionStore, the session middleware of aiohttp_session, and the   *)
(* APIService middleware and handlers that use the session.                *)
(***************************************************************************)

\* str(int) and int(str) for the numbers of the model.
Numerals == <<"0", "1", "2", "3", "4", "5", "6", "7", "8", "9">>
IntToStr(n) == Numerals[n + 1]
StrToInt(text) == CHOOSE n \in 0..(Len(Numerals) - 1) : Numerals[n + 1] = text

\* str.split(): the maximal runs of pieces other than white space.
RECURSIVE SplitFrom(_, _, _)
SplitFrom(text, i, word) ==
    IF i > Len(text)
    THEN IF word = <<>> THEN <<>> ELSE <<word>>
    ELSE IF text[i] = " "
         THEN (IF word = <<>> THEN <<>> ELSE <<word>>) \o SplitFrom(text, i + 1, <<>>)
         ELSE SplitFrom(text, i + 1, Append(word, text[i]))
Split(text) == SplitFrom(text, 1, <<>>)

\* The string a run of pieces is.
RECURSIVE Join(_)
Join(word) == IF word = <<>> THEN "" ELSE Head(word) \o Join(Tail(word))

\* A faulty LoadCookie: the cookie is looked at first.
LoadCookieFirst(req) ==
    LET s == Split(req.header.text)
    IN  IF req.cookie # NoId THEN req.cookie
        ELSE IF req.header.present /\ Len(s) = 2 /\ Join(s[1]) = "Bearer" THEN Join(s[2])
        ELSE NoId

\* RedisSessionStore.load_cookie; the cookie is what
\* AbstractStorage.load_cookie returns.
LoadCookie(req) ==
    LET s == Split(req.header.text)
    IN  IF req.header.present /\ Len(s) = 2 /\ Join(s[1]) = "Bearer"
        THEN Join(s[2])
        ELSE req.cookie

\* aiohttp_session.Session(None, data=None, new=True, max_age=None).
NewSession ==
    [identity |-> NoId, new |-> TRUE, created |-> now, mapping |-> EmptyMap, changed |-> FALSE]

\* A faulty LoadedSession: `created` is not taken from the record.
LoadedSessionNow(session_id, session_save_data) ==
    [identity |-> session_id, new |-> FALSE, created |-> now,
     mapping |-> [f \in (DOMAIN session_save_data) \ {"created"} |-> session_save_data[f]],
     changed |-> FALSE]

\* The session load_session builds from a record that is not empty.
LoadedSession(session_id, session_save_data) ==
    [identity |-> session_id, new |-> FALSE, created |-> StrToInt(session_save_data["created"]),
     mapping |-> [f \in (DOMAIN session_save_data) \ {"created"} |-> session_save_data[f]],
     changed |-> FALSE]

\* The dict save_session stores, as the store keeps it: strings.
SaveData(session) ==
    [f \in (DOMAIN session.mapping) \cup {"created"} |->
        IF f = "created" THEN IntToStr(session.created) ELSE session.mapping[f]]

\* Session.empty.
Empty(session) == session.mapping = EmptyMap

\* A faulty Invalidate: the identity is dropped with the data.
InvalidateIdentity(session) ==
    [session EXCEPT !.changed = TRUE, !.mapping = EmptyMap, !.identity = NoId]

\* Session.invalidate().
Invalidate(session) == [session EXCEPT !.changed = TRUE, !.mapping = EmptyMap]

\* uuid.uuid4().hex: an identifier never used before.
FreshId == CHOOSE i \in SessionIds \ s_issued : TRUE

\* verify_session and the route handler, for a request of the given kind
\* whose session is `session`: the session afterwards, the status of the
\* response, and whether the route handler was invoked.  "update" stands
\* for a handler that writes to the session of an authenticated request.
Handler(kind, session) ==
    IF kind \notin {"login_ok", "login_bad"} /\ session.new
    THEN [session |-> session, status |-> 401, handled |-> FALSE]
    ELSE CASE kind = "login_ok" ->
                [session |-> IF session.new
                             THEN [session EXCEPT !.identity = FreshId,
                                                  !.mapping = [user |-> "admin"],
                                                  !.changed = TRUE]
                             ELSE session,
                 status |-> 200, handled |-> TRUE]
           [] kind = "login_bad" ->
                [session |-> Invalidate(session), status |-> 401, handled |-> TRUE]
           [] kind = "logout" ->
                [session |-> Invalidate(session), status |-> 200, handled |-> TRUE]
           [] kind = "update" ->
                [session |-> [session EXCEPT !.mapping = MapMerge(session.mapping, [note |-> "x"]),
                                             !.changed = TRUE],
                 status |-> 200, handled |-> TRUE]
           [] OTHER -> [session |-> session, status |-> 200, handled |-> TRUE]

SessionStore == [val |-> k_val, ttl |-> k_ttl, ok |-> TRUE]

\* map_get_entries(storage_key) in load_session.
SessionRead(session_id) ==
    IF StorageKey(session_id) \in StorageKeys
    THEN Hgetall(k_val[StorageKey(session_id)]).map
    ELSE EmptyMap

\* The store after save_session has sent its command or its bulk
\* operation (delete, map_put, and expire if an idle expiry is configured,
\* in one transaction).
SaveSession(session) ==
    LET storage_key == StorageKey(session.identity)
    IN  IF Empty(session)
        THEN ExecOne(SessionStore, Delete(storage_key))
        ELSE ExecAll(SessionStore,
                     <<Delete(storage_key), Hset(storage_key, SaveData(session))>>
                         \o (IF idle # 0 THEN <<Pexpire(storage_key, idle)>> ELSE <<>>))

\* The response is sent and the coroutine of request r ends.
Respond(r, req, resp) ==
    /\ q_pc' = [q_pc EXCEPT ![r] = "idle"]
    /\ q_req' = [q_req EXCEPT ![r] = NoReq]
    /\ q_sess' = [q_sess EXCEPT ![r] = NoSession]
    /\ q_resp' = [q_resp EXCEPT ![r] = NoResp]
    /\ q_data' = [q_data EXCEPT ![r] = EmptyMap]
    /\ s_last' = [op |-> "response", req |-> req, sid |-> LoadCookie(req), resp |-> resp]

\* From the return of load_session to the response or to the suspension
\* of save_session: get_session returns, verify_session and the handler
\* run, and the session middleware saves the session if it was changed.
Proceed(r, req, session) ==
    LET h == Handler(req.kind, session)
        sn == h.session
        resp == [status |-> h.status, handled |-> h.handled, loaded_new |-> session.new,
                 cookie |-> IF ~sn.changed THEN "" ELSE IF Empty(sn) THEN NoId ELSE sn.identity]
    IN  IF sn.changed
        THEN /\ k_val' = SaveSession(sn).val
             /\ k_ttl' = SaveSession(sn).ttl
             /\ q_pc' = [q_pc EXCEPT ![r] = "save_wait"]
             /\ q_req' = [q_req EXCEPT ![r] = req]
             /\ q_sess' = [q_sess EXCEPT ![r] = sn]
             /\ q_resp' = [q_resp EXCEPT ![r] = resp]
             /\ q_data' = [q_data EXCEPT ![r] = EmptyMap]
             /\ s_issued' = s_issued \cup ({sn.identity} \ {NoId})
             /\ s_saved' = IF Empty(sn) THEN s_saved
                           ELSE [s_saved EXCEPT ![sn.identity] =
                                    [created |-> IF @.created = -1 THEN sn.created ELSE @.created,
                                     mapping |-> sn.mapping]]
             /\ s_last' = NoLast
        ELSE /\ Respond(r, req, resp)
             /\ UNCHANGED <<k_val, k_ttl, s_issued, s_saved>>

FirstIdleReq(r) == q_pc[r] = "idle" /\ \A u \in Reqs : u < r => q_pc[u] # "idle"

\* login creates identifiers while some of `ids` are left.
IdsLeft(kind, ids) ==
    kind = "login_ok" =>
        Cardinality(s_issued) + Cardinality({u \in Reqs : q_req[u].kind = "login_ok"})
            < Cardinality(ids)

\* A request arrives: the middlewares run down to load_session, which
\* returns a new session if the request has no identifier and otherwise
\* suspends in map_get_entries.
HttpRequest(r, kind, header, cookie) ==
    /\ FirstIdleReq(r)
    /\ LET sid == LoadCookie([header |-> header, cookie |-> cookie])
           req == [kind |-> kind, header |-> header, cookie |-> cookie, stale |-> sid \in s_out]
       IN  IF sid = NoId
           THEN Proceed(r, req, NewSession)
           ELSE /\ q_pc' = [q_pc EXCEPT ![r] = "load_wait"]
                /\ q_req' = [q_req EXCEPT ![r] = req]
                /\ q_data' = [q_data EXCEPT ![r] = SessionRead(sid)]
                /\ s_last' = NoLast
                /\ UNCHANGED <<k_val, k_ttl, q_sess, q_resp, s_issued, s_saved>>
    /\ UNCHANGED <<now, idle, s_out>>
    /\ UNCHANGED <<o_pc, o_call, o_tx, o_queue, o_enq, o_base, o_ok, r_seen>>
    /\ UNCHANGED <<rvars, bvars, cvars, gvars>>

\* load_session resumed after map_get_entries: a new session for no
\* record; otherwise, with an idle expiry, the suspension in expire.
LoadResume(r) ==
    /\ q_pc[r] = "load_wait"
    /\ LET sid == LoadCookie(q_req[r])
       IN  IF q_data[r] = EmptyMap
           THEN Proceed(r, q_req[r], NewSession)
           ELSE IF idle # 0
                THEN /\ k_val' = ExecOne(SessionStore, Pexpire(StorageKey(sid), idle)).val
                     /\ k_ttl' = ExecOne(SessionStore, Pexpire(StorageKey(sid), idle)).ttl
                     /\ q_pc' = [q_pc EXCEPT ![r] = "expire_wait"]
                     /\ s_last' = [NoLast EXCEPT !.op = "expire", !.sid = sid]
                     /\ UNCHANGED <<q_req, q_data, q_sess, q_resp, s_issued, s_saved>>
                ELSE Proceed(r, q_req[r], LoadedSession(sid, q_data[r]))
    /\ UNCHANGED <<now, idle, s_out>>
    /\ UNCHANGED <<o_pc, o_call, o_tx, o_queue, o_enq, o_base, o_ok, r_seen>>
    /\ UNCHANGED <<rvars, bvars, cvars, gvars>>

\* load_session resumed after expire: it returns the session.
ExpireResume(r) ==
    /\ q_pc[r] = "expire_wait"
    /\ Proceed(r, q_req[r], LoadedSession(LoadCookie(q_req[r]), q_data[r]))
    /\ UNCHANGED <<now, idle, s_out>>
    /\ UNCHANGED <<o_pc, o_call, o_tx, o_queue, o_enq, o_base, o_ok, r_seen>>
    /\ UNCHANGED <<rvars, bvars, cvars, gvars>>

\* save_session resumed after delete or execute: the response is sent.
SaveResume(r) ==
    /\ q_pc[r] = "save_wait"
    /\ Respond(r, q_req[r], q_resp[r])
    /\ s_out' = IF Empty(q_sess[r]) THEN s_out \cup ({q_sess[r].identity} \ {NoId}) ELSE s_out
    /\ UNCHANGED <<now, idle, k_val, k_ttl, s_issued, s_saved>>
    /\ UNCHANGED <<o_pc, o_call, o_tx, o_queue, o_enq, o_base, o_ok, r_seen>>
    /\ UNCHANGED <<rvars, bvars, cvars, gvars>>

\* Time passes: a key whose time to live runs out stops existing.
Tick ==
    /\ now < MaxTime
    /\ now' = now + 1
    /\ k_ttl' = [k \in StorageKeys |-> IF k_ttl[k] > 0 THEN k_ttl[k] - 1 ELSE 0]
    /\ k_val' = [k \in StorageKeys |-> IF k_ttl[k] = 1 THEN NoValue ELSE k_val[k]]
    /\ s_last' = NoLast
    /\ UNCHANGED <<idle, q_pc, q_req, q_data, q_sess, q_resp, s_issued, s_saved, s_out>>
    /\ UNCHANGED <<o_pc, o_call, o_tx, o_queue, o_enq, o_base, o_ok, r_seen>>
    /\ UNCHANGED <<rvars, bvars, cvars, gvars>>

\* The identifiers login has returned in a response.
Returned ==
    {i \in s_issued :
        \A r \in Reqs : ~(q_pc[r] = "save_wait" /\ q_resp[r].loaded_new /\ q_sess[r].identity = i)}

\* The credentials clients send: none, an identifier login returned, or
\* one of `others`.
Presented(others) == {NoHeader} \cup {BearerHeader(i) : i \in Returned \cup others}

\* The requests of the kinds in `kinds` and the steps that serve them.
RequestNext(kinds, others, ids) ==
    \/ \E r \in Reqs, kind \in kinds, header \in Presented(others) :
            IdsLeft(kind, ids) /\ HttpRequest(r, kind, header, NoId)
    \/ \E r \in Reqs : LoadResume(r)
    \/ \E r \in Reqs : SaveResume(r)

\* The session store, without and with an idle expiry, under handlers
\* that read and write the session; one session is created, and time
\* passes between and during its requests.
OneSession == {"s1"}

InitSession ==
    /\ RStarted(1)
    /\ BInit
    /\ CInit
    /\ GInit
    /\ KInit
    /\ \E expiry \in {0, MaxIdle} : SInitWith(expiry)

SpecSession ==
    InitSession /\ [][RequestNext({"login_ok", "update", "get"}, {}, OneSession)
                        \/ (\E r \in Reqs : ExpireResume(r)) \/ Tick]_vars

\* The routes of APIService: RedisSessionStore(self.config), no idle expiry.
InitApi == RStarted(1) /\ BInit /\ CInit /\ GInit /\ KInit /\ SInit

SpecApi == InitApi /\ [][RequestNext({"login_ok", "login_bad", "get", "logout"}, {"bearer"}, SessionIds)]_vars

\* The record stored for identifier i, and whether there is one.
SessionRecord(i) == k_val[StorageKey(i)]
HasRecord(i) == SessionRecord(i) # NoValue

\* Request r holds a record it has read and not yet turned into a session.
HoldsRecord(r) ==
    \/ q_pc[r] = "expire_wait"
    \/ q_pc[r] = "load_wait" /\ q_data[r] # EmptyMap

\* C16: a saved non-empty session is stored as a hash from which
\* load_session with the same identifier rebuilds the fields last saved and
\* the `created` value of the first save, whatever loads, saves, idle-expiry
\* refreshes and clock ticks came in between; a record a request has read
\* carries that `created` value too.
C16_SessionRoundTrip ==
    /\ \A i \in SessionIds :
          HasRecord(i) =>
              /\ SessionRecord(i).t = "hash"
              /\ "created" \in DOMAIN SessionRecord(i).m
              /\ LoadedSession(i, SessionRecord(i).m).created = s_saved[i].created
              /\ LoadedSession(i, SessionRecord(i).m).mapping = s_saved[i].mapping
              /\ ~LoadedSession(i, SessionRecord(i).m).new
    /\ \A r \in Reqs :
          HoldsRecord(r) =>
              LoadedSession(LoadCookie(q_req[r]), q_data[r]).created
                  = s_saved[LoadCookie(q_req[r])].created

\* A session created at time 0, saved again by a later request and kept
\* alive past its idle expiry by refreshes, has just been loaded again.
C16_Witness ==
    /\ idle # 0
    /\ now >= MaxIdle
    /\ HasRecord("s1")
    /\ s_saved["s1"].created = 0
    /\ "note" \in DOMAIN s_saved["s1"].mapping
    /\ s_last.op = "response"
    /\ s_last.req.kind = "get"
    /\ s_last.sid = "s1"
    /\ ~s_last.resp.loaded_new

\* Request r has just entered save_session with a non-empty session.
SavesNonEmpty(r) == q_pc[r] # "save_wait" /\ q_pc'[r] = "save_wait" /\ ~Empty(q_sess'[r])

\* C17: with an idle expiry, every load_session that found a record and
\* every save_session of a non-empty session leaves the session key with
\* the full idle expiry as its time to live, and no session key lives
\* longer than the idle expiry without one of them; with no idle expiry,
\* no session key ever has a time to live.
C17_IdleExpirySlides ==
    /\ [](\A i \in SessionIds :
              /\ idle = 0 => k_ttl[StorageKey(i)] = 0
              /\ idle # 0 /\ HasRecord(i) => k_ttl[StorageKey(i)] \in 1..idle)
    /\ [][/\ s_last'.op = "expire" =>
                /\ k_val'[StorageKey(s_last'.sid)] # NoValue
                /\ k_ttl'[StorageKey(s_last'.sid)] = idle
          /\ \A r \in Reqs :
                SavesNonEmpty(r) =>
                    /\ k_val'[StorageKey(q_sess'[r].identity)] # NoValue
                    /\ k_ttl'[StorageKey(q_sess'[r].identity)] = idle]_vars

\* Request r has just entered save_session with the session of an
\* identifier it loaded, now empty.
SavesEmptied(r) ==
    /\ q_pc[r] # "save_wait"
    /\ q_pc'[r] = "save_wait"
    /\ Empty(q_sess'[r])
    /\ ~q_resp'[r].loaded_new

\* C18: save_session of an emptied session removes the record of the
\* identifier the request carried and clears the cookie; an identifier
\* whose logout or invalidation has been saved has no record from then on,
\* and every request that arrives with it afterwards gets a new session
\* from load_session and, unless it is a login, the status 401 without
\* its route handler being invoked.
C18_LogoutEndsSession ==
    /\ [](\A i \in s_out : ~HasRecord(i))
    /\ [](s_last.op = "response" /\ s_last.req.stale =>
              /\ s_last.resp.loaded_new
              /\ s_last.req.kind \notin {"login_ok", "login_bad"} =>
                    s_last.resp.status = 401 /\ ~s_last.resp.handled)
    /\ [][\A r \in Reqs :
              SavesEmptied(r) =>
                  /\ k_val'[StorageKey(LoadCookie(q_req'[r]))] = NoValue
                  /\ q_resp'[r].cookie = NoId]_vars
    /\ [][\A r \in Reqs :
              (q_pc[r] = "save_wait" /\ q_pc'[r] = "idle" /\ Empty(q_sess[r])
                   /\ ~q_resp[r].loaded_new) =>
                  LoadCookie(q_req[r]) \in s_out']_vars

\* A request other than a login that carried the identifier of a session
\* logged out before it arrived has been answered.
C18_Witness ==
    /\ s_last.op = "response"
    /\ s_last.req.stale
    /\ s_last.req.kind = "get"
    /\ s_last.sid \in s_out
    /\ s_last.resp.status = 401

(***************************************************************************)
(* load_cookie and load_session over the Authorization headers and         *)
(* cookies a request can carry.                                            *)
(***************************************************************************)

\* The Authorization headers: absent, or any text of at most MaxHeaderLen
\* pieces; the cookies: absent, or any identifier.
Headers == {NoHeader} \cup {[present |-> TRUE, text |-> t] : t \in SeqsUpTo(HeaderPieces, MaxHeaderLen)}
Cookies == {NoId} \cup SessionIds

\* The session login stored under identifier "s1".
StoredSession ==
    [identity |-> "s1", new |-> TRUE, created |-> 0, mapping |-> [user |-> "admin"], changed |-> TRUE]

\* "s1" was created by a login and its session saved; no request is being
\* served.
InitCookie ==
    /\ RStarted(1)
    /\ BInit
    /\ CInit
    /\ GInit
    /\ KInitWith([k \in StorageKeys |->
                     IF k = StorageKey("s1") THEN HashValue(SaveData(StoredSession)) ELSE NoValue],
                 [k \in StorageKeys |-> 0])
    /\ now = 0
    /\ idle = 0
    /\ q_pc = [r \in Reqs |-> "idle"]
    /\ q_req = [r \in Reqs |-> NoReq]
    /\ q_data = [r \in Reqs |-> EmptyMap]
    /\ q_sess = [r \in Reqs |-> NoSession]
    /\ q_resp = [r \in Reqs |-> NoResp]
    /\ s_issued = {"s1"}
    /\ s_saved = [i \in SessionIds |->
                     IF i = "s1" THEN [created |-> 0, mapping |-> StoredSession.mapping] ELSE NoSaved]
    /\ s_out = {}
    /\ s_last = NoLast

\* One request, with any header and any cookie.
CookieNext ==
    \/ \E header \in Headers, cookie \in Cookies :
          /\ \A r \in Reqs : q_pc[r] = "idle"
          /\ s_last = NoLast
          /\ HttpRequest(1, "get", header, cookie)
    \/ LoadResume(1)

SpecCookie == InitCookie /\ [][CookieNext]_vars

\* The text is "Bearer" and one more word, the pieces j..k, with white
\* space between them and possibly around them.
TwoPartForm(text, j, k) ==
    \E i \in 1..Len(text) :
        /\ text[i] = "Bearer"
        /\ \A n \in 1..(i - 1) : text[n] = " "
        /\ i + 1 < j
        /\ j <= k
        /\ k <= Len(text)
        /\ \A n \in (i + 1)..(j - 1) : text[n] = " "
        /\ \A n \in j..k : text[n] # " "
        /\ \A n \in (k + 1)..Len(text) : text[n] = " "

IsTwoPartForm(header) ==
    header.present /\ \E j, k \in 1..Len(header.text) : TwoPartForm(header.text, j, k)

\* The token of a header in the two-part form.
BearerToken(header) ==
    LET jk == CHOOSE jk \in (1..Len(header.text)) \X (1..Len(header.text)) :
                  TwoPartForm(header.text, jk[1], jk[2])
    IN  Join(SubSeq(header.text, jk[1], jk[2]))

\* The identifier the request should be served under.
ExpectedId(req) == IF IsTwoPartForm(req.header) THEN BearerToken(req.header) ELSE req.cookie

\* The record of identifier i in store S, empty if there is none.
RecordOf(i) == IF StorageKey(i) \in StorageKeys THEN k_val[StorageKey(i)].m ELSE EmptyMap

\* C19: the identifier of a request is the token of its Authorization
\* header when the header is "Bearer", white space and one token, and the
\* cookie otherwise (the token wins over a cookie); with an identifier,
\* load_session reads the record of that identifier and returns a session
\* that is new exactly if there is none; with no identifier it returns a
\* new session without suspending in, reading or writing the cache.
C19_IdentifierFromBearerThenCookie ==
    /\ [](\A r \in Reqs :
              q_pc[r] = "load_wait" =>
                  /\ ExpectedId(q_req[r]) # NoId
                  /\ LoadCookie(q_req[r]) = ExpectedId(q_req[r])
                  /\ q_data[r] = RecordOf(ExpectedId(q_req[r])))
    /\ [](s_last.op = "response" =>
              /\ s_last.sid = ExpectedId(s_last.req)
              /\ s_last.resp.loaded_new = (RecordOf(ExpectedId(s_last.req)) = EmptyMap))
    /\ [][(\A r \in Reqs : q_pc[r] = "idle" /\ q_pc'[r] = "idle") =>
              /\ ExpectedId(s_last'.req) = NoId
              /\ s_last'.resp.loaded_new
              /\ k_val' = k_val
              /\ k_ttl' = k_ttl]_vars
    /\ [][(\E r \in Reqs : q_pc[r] = "idle" /\ q_pc'[r] = "load_wait") =>
              k_val' = k_val /\ k_ttl' = k_ttl]_vars

\* A request whose header holds a bearer token among white space and whose
\* cookie names another session has been served under the token.
C19_Witness ==
    /\ s_last.op = "response"
    /\ s_last.req.header.text = <<" ", "Bearer", " ", " ", "s1">>
    /\ s_last.req.cookie = "s2"
    /\ s_last.sid = "s1"
    /\ ~s_last.resp.loaded_new

\* A request with a cookie and a header that is not in the two-part form
\* has been served under the cookie.
C19_WitnessCookie ==
    /\ s_last.op = "response"
    /\ s_last.req.header.text = <<"Bearer", " ", "s1", " ", "s1">>
    /\ s_last.req.cookie = "s1"
    /\ s_last.sid = "s1"
    /\ ~s_last.resp.loaded_new

(***************************************************************************)
(* init_redis over the configurations and environments it can be given.    *)
(***************************************************************************)

\* A faulty UrlError: the name of an unset environment variable is used as
\* the URL.
UrlErrorNoEnvCheck(url, env) ==
    IF url.kind = "str" THEN "none" ELSE "StartUpException"

\* Lines 52-60 of init_redis: the exception raised for the configured
\* value, "none" if there is none.
UrlError(url, env) ==
    IF url.kind = "str"
    THEN IF Len(url.text) > 1 /\ Head(url.text) = "$"
         THEN IF Join(Tail(url.text)) \in env THEN "none" ELSE "StartUpException"
         ELSE "none"
    ELSE "StartUpException"

\* The URL handed to aioredis.from_url.
ResolvedUrl(url, env) ==
    IF Len(url.text) > 1 /\ Head(url.text) = "$" THEN UsableUrl.text ELSE url.text

\* aioredis.from_url rejects a text without a Redis scheme before it
\* creates a client.
FromUrlError(text) ==
    IF text # <<>> /\ Head(text) = "redis://host" THEN "none" ELSE "ValueError"

\* The exception init_redis raises when it finds no handle, "none" if it
\* goes on to create the client.
ConfigError(url, env) ==
    IF UrlError(url, env) # "none" THEN UrlError(url, env)
    ELSE FromUrlError(ResolvedUrl(url, env))

\* init_redis(config), from entry to its return, its exception or the
\* suspension in aioredis.from_url.
InitRedisConfig(t, url, env) ==
    /\ pc[t] = "idle"
    /\ IF NoHandle /\ ConfigError(url, env) # "none"
       THEN /\ pc' = [pc EXCEPT ![t] = "raised"]
            /\ r_cfg' = [url |-> url, env |-> env, called |-> TRUE,
                         error |-> ConfigError(url, env)]
            /\ UNCHANGED <<redis, redis_ref_count, conn, closes, handle, acquires, releases>>
       ELSE /\ InitRedisEntry(t)
            /\ r_cfg' = IF NoHandle
                        THEN [url |-> url, env |-> env, called |-> TRUE, error |-> "none"]
                        ELSE r_cfg
    /\ UNCHANGED <<bvars, cvars, kvars, svars, a_pc, a_count, pvars>>

ConfigNext ==
    \E t \in Tasks :
        \/ \E url \in ConfigUrls, env \in Environs : InitRedisConfig(t, url, env)
        \/ InitRedisResume(t)
        \/ CloseRedisCall(t)

SpecConfig == Init /\ [][ConfigNext]_vars

\* The address configuration is missing, is not a string, or is "$" and
\* the name of an environment variable that is not set.
BadAddress(url, env) ==
    \/ url.kind = "missing"
    \/ url.kind = "other"
    \/ url.kind = "str" /\ Len(url.text) = 2 /\ url.text[1] = "$" /\ url.text[2] \notin env

\* C22: an init_redis call that finds no handle and is given a bad address
\* configuration raises StartUpException in the step it is called, without
\* creating a connection, and leaves the handle absent and redis_ref_count
\* and every connection as they were.
C22_BadAddressFailsFast ==
    [][\A t \in Tasks :
          (pc[t] = "idle" /\ pc'[t] # "idle" /\ redis = None
               /\ BadAddress(r_cfg'.url, r_cfg'.env)) =>
              /\ pc'[t] = "raised"
              /\ r_cfg'.error = "StartUpException"
              /\ redis' = None
              /\ redis_ref_count' = redis_ref_count
              /\ conn' = conn
              /\ handle' = handle
              /\ acquires' = acquires]_vars

\* A call naming an unset environment variable has raised while another
\* call, given a usable address, is creating the connection.
C22_Witness ==
    /\ redis = None
    /\ r_cfg.called
    /\ r_cfg.url = StrUrl(<<"$", "REDIS_URL">>)
    /\ r_cfg.env = {}
    /\ r_cfg.error = "StartUpException"
    /\ \E t, u \in Tasks : pc[t] = "raised" /\ pc[u] = "connecting"

(***************************************************************************)
(* Concurrent subscribe calls on a channel that is not subscribed yet.     *)
(***************************************************************************)

\* subscribe(ch, h) called while ch has no handler list, by callers that
\* each register a handler of their own on the one channel in use.
RaceSubscribeCall(t, ch, h) ==
    /\ channel_handlers[ch] = None
    /\ pubsub_channels \subseteq {ch}
    /\ \A u \in BusTasks : b_pc[u] = "sub_wait" => b_arg[u].h # h
    /\ SubscribeCall(t, ch, h)

RaceNext ==
    \/ \E t \in BusTasks, ch \in ListenChannels, h \in Handlers : RaceSubscribeCall(t, ch, h)
    \/ \E t \in BusTasks : SubscribeResume(t)
    \/ ListenNext(ListenChannels)

SpecRace == Init /\ [][RaceNext]_vars

\* C23: when two subscribe calls for distinct handlers on one channel that
\* was not subscribed have both suspended at the transport and both
\* completed, both handlers are registered for the channel, and a message
\* that then arrives on the channel is dispatched to both.
C23_ConcurrentSubscribesBothRegister ==
    /\ [](\A ch \in ListenChannels :
              (calls = 2 /\ TableQuiescent /\ pubsub_channels = {ch}) =>
                  Cardinality(Range(HandlersOf(ch))) = 2)
    /\ [][(/\ calls = 2
           /\ TableQuiescent
           /\ last_op'.op = "receive"
           /\ last_op'.outcome = "decodable"
           /\ pubsub_channels = {last_op'.ch}) =>
              /\ l_pc' = "in_handler"
              /\ Cardinality(Range(l_registered')) = 2]_vars

\* The number of calls of handler h for the message being dispatched.
TimesInvoked(h) == Cardinality({i \in 1..Len(invoked) : invoked[i] = h})

\* C24 (SpecListen): when the dispatch of a message ends without a handler
\* having raised, whatever subscribe and unsubscribe calls ran while the
\* listener was suspended in a handler, every handler that was registered
\* for the channel when the message arrived and still is has been called
\* exactly once for that message.
C24_DispatchSkipsNoHandler ==
    [][(DispatchEnds /\ logged' = logged) =>
          \A h \in Range(l_registered) \cap Range(HandlersOf(l_msg.ch)) :
              TimesInvoked(h) = 1]_vars

\* C25 (SpecBus): an unsubscribe call that names a channel without
\* registered handlers, or a handler that is not registered on the channel
\* it names, whether it raises or returns, leaves the handlers registered
\* on every channel and the channels subscribed at the transport as they
\* were.
C25_UnsubscribeOfNothingChangesNothing ==
    [][(/\ TableCallStep
        /\ last_op'.op = "unsubscribe"
        /\ \/ HandlersOf(last_op'.ch) = <<>>
           \/ last_op'.h # None /\ last_op'.h \notin Range(HandlersOf(last_op'.ch))) =>
          /\ \A c \in Channels : HandlersIn(channel_handlers', lists', c) = HandlersOf(c)
          /\ pubsub_channels' = pubsub_channels]_vars

(***************************************************************************)
(* APIService.start and APIService.stop.  The three components of the      *)
(* service acquire and release the shared connection as three holders;     *)
(* the holders beyond these are other components of the process, which     *)
(* hold the connection throughout.                                         *)
(***************************************************************************)
CacheHolder == BusHolder + 1
SessionHolder == BusHolder + 2
ServiceHolders == {BusHolder, CacheHolder, SessionHolder}

\* The connection manager when k other components hold the connection.
RHeldBy(k) ==
    /\ redis = IF k = 0 THEN None ELSE FirstConn
    /\ redis_ref_count = k
    /\ conn = [c \in ConnIds |-> IF k > 0 /\ c = FirstConn THEN "open" ELSE "unused"]
    /\ closes = [c \in ConnIds |-> 0]
    /\ pc = [t \in Tasks |-> IF t \in ServiceHolders \/ t > SessionHolder + k
                             THEN "idle" ELSE "holding"]
    /\ handle = [t \in Tasks |-> IF t \in ServiceHolders \/ t > SessionHolder + k
                                 THEN None ELSE FirstConn]
    /\ acquires = k
    /\ releases = 0

InitService ==
    /\ \E k \in 0..(NumTasks - Cardinality(ServiceHolders)) : RHeldBy(k)
    /\ BInit
    /\ CInit
    /\ GInit
    /\ KInit
    /\ SInit

\* start() up to the return or the suspension of `await
\* self.shared_cache.open()`.
StartCall ==
    /\ a_pc = "idle"
    /\ a_pc' = "cache_open"
    /\ a_count' = redis_ref_count
    /\ InitRedisEntry(CacheHolder)
    /\ UNCHANGED <<bvars, cvars, kvars, svars, r_cfg, pvars>>

\* start() from `await self.message_bus.start()` to the suspension in
\* `await self._pubsub.connect()`.
StartBus ==
    /\ a_pc = "cache_open"
    /\ pc[CacheHolder] = "holding"
    /\ a_pc' = "bus_start"
    /\ InitRedisEntry(BusHolder)
    /\ UNCHANGED <<bvars, cvars, kvars, svars, r_cfg, a_count, pvars>>

\* start() from the creation of the listener task through `await
\* self.session_store.open()` to the suspension in the set-up of the site.
StartSessionStore ==
    /\ a_pc = "bus_start"
    /\ a_pc' = "site_start"
    /\ InitRedisEntry(SessionHolder)
    /\ UNCHANGED <<bvars, cvars, kvars, svars, r_cfg, a_count, pvars>>

\* start() returns.
StartReturn ==
    /\ a_pc = "site_start"
    /\ a_pc' = "started"
    /\ UNCHANGED <<rvars, bvars, cvars, kvars, svars, r_cfg, a_count, pvars>>

\* A faulty StopCall: the session store is not closed.
StopCallKeepsSessionStore ==
    /\ a_pc = "started"
    /\ \A t \in BusTasks : b_pc[t] = "idle"
    /\ a_pc' = "cleanup_wait"
    /\ UNCHANGED <<rvars, bvars, cvars, kvars, svars, r_cfg, a_count, pvars>>

\* stop() from `await self.session_store.close()` to the suspension in
\* `await self.web_app_runner.cleanup()`.
StopCall ==
    /\ a_pc = "started"
    /\ \A t \in BusTasks : b_pc[t] = "idle"
    /\ a_pc' = "cleanup_wait"
    /\ CloseRedisEntry(SessionHolder)
    /\ UNCHANGED <<bvars, cvars, kvars, svars, r_cfg, a_count, pvars>>

\* cleanup() is over: the handlers of the site have ended and stop() goes
\* on to `await self.message_bus.close()`.
StopCleanupResume ==
    /\ a_pc = "cleanup_wait"
    /\ \A t \in BusTasks : b_pc[t] = "idle"
    /\ a_pc' = "bus_close"
    /\ UNCHANGED <<rvars, bvars, cvars, kvars, svars, r_cfg, a_count, pvars>>

\* message_bus.close() has returned.
BusCloseReturned == c_pc = "close_redis" /\ pc[BusHolder] = "idle"

\* stop() from `await self.shared_cache.close()` to its return or to the
\* suspension in close_redis.
StopCacheClose ==
    /\ a_pc = "bus_close"
    /\ BusCloseReturned
    /\ a_pc' = "cache_close"
    /\ CloseRedisEntry(CacheHolder)
    /\ UNCHANGED <<bvars, cvars, kvars, svars, r_cfg, a_count, pvars>>

\* stop() returns.
StopReturn ==
    /\ a_pc = "cache_close"
    /\ pc[CacheHolder] = "idle"
    /\ a_pc' = "stopped"
    /\ UNCHANGED <<rvars, bvars, cvars, kvars, svars, r_cfg, a_count, pvars>>

ServiceNext ==
    \/ StartCall
    \/ InitRedisResume(CacheHolder)
    \/ StartBus
    \/ StartSessionStore
    \/ StartReturn
    \/ \E t \in BusTasks, ch \in Channels, h \in Handlers :
            a_pc = "started" /\ NextHandler(ch, h) /\ SubscribeCall(t, ch, h)
    \/ \E t \in BusTasks : SubscribeResume(t)
    \/ \E ch \in ListenChannels, text \in Texts : a_pc # "idle" /\ Receive(ch, text)
    \/ HandlerReturn
    \/ HandlerRaise
    \/ StopCall
    \/ StopCleanupResume
    \/ a_pc = "bus_close" /\ CloseCall
    \/ CloseUnsubscribeResume
    \/ ClosePubsubResume
    \/ StopCacheClose
    \/ CloseRedisDisconnect(CacheHolder)
    \/ CloseRedisReturn(CacheHolder)
    \/ StopReturn
    \/ ListenerCancelled

SpecService == InitService /\ [][ServiceNext]_vars

\* The shared connection has been closed, or is being closed.
ConnectionClosed == \E c \in ConnIds : closes[c] > 0

\* C26: when start() has completed, the service holds three more
\* references than before (shared cache, message bus, session store); when
\* stop() has returned, exactly these three have been released and
\* redis_ref_count is what it was before start().  The connection is
\* closed by the step of the last of the three releases only, that of the
\* shared cache, when nothing else holds it, after close() of the bus has
\* returned with every channel unsubscribed and the pub/sub transport
\* closed; once it is closed no step touches the registrations, the
\* transport or the connection references of the bus and the session
\* store, and the listener does nothing but end.
C26_StopReleasesWhatStartAcquired ==
    /\ [](a_pc = "started" =>
            /\ redis_ref_count = a_count + Cardinality(ServiceHolders)
            /\ \A t \in ServiceHolders : pc[t] = "holding" /\ handle[t] = redis
            /\ conn[redis] = "open")
    /\ [](a_pc = "stopped" =>
            /\ redis_ref_count = a_count
            /\ releases = Cardinality(ServiceHolders)
            /\ \A t \in ServiceHolders : pc[t] = "idle"
            /\ (a_count = 0) = (conn[redis] = "closed")
            /\ closes[redis] = IF a_count = 0 THEN 1 ELSE 0)
    /\ [][closes' # closes =>
            /\ a_pc' = "cache_close"
            /\ pc'[CacheHolder] = "closing"
            /\ releases' = Cardinality(ServiceHolders)
            /\ redis_ref_count' = 0
            /\ CloseReturned
            /\ pubsub_closed
            /\ pubsub_channels = {}
            /\ \A c \in Channels : channel_handlers[c] = None
            /\ {c_log[i].ch : i \in {j \in 1..Len(c_log) : c_log[j].ev = "unsubscribe"}}
                    = c_before.channels]_vars
    /\ [][ConnectionClosed =>
            /\ UNCHANGED <<channel_handlers, pubsub_channels, pubsub_closed, c_pc, b_pc,
                           msg_seq, redis, redis_ref_count, acquires, releases>>
            /\ \A t \in Tasks \ {CacheHolder} : pc'[t] = pc[t]
            /\ l_pc' \in {l_pc, "finished"}]_vars

\* stop() has returned: the service was the only holder, two channels were
\* subscribed and a message was dispatched before stop(), the listener has
\* ended and the connection is closed.
C26_Witness ==
    /\ a_pc = "stopped"
    /\ a_count = 0
    /\ redis_ref_count = 0
    /\ conn[redis] = "closed"
    /\ Cardinality(c_before.channels) = 2
    /\ msg_seq >= 1
    /\ l_pc = "finished"

(***************************************************************************)
(* The start and stop strategy endpoints.  A request passes handle_error   *)
(* and verify_session, publishes its command on the request channel and    *)
(* waits for the next message on the response channel.  The engines are    *)
(* other processes, which subscribe to the request channel and answer on   *)
(* the response channel.                                                   *)
(***************************************************************************)

\* The `result` field of a response: the two values the gateway knows, and
\* any other value or no field.
Results == {"SUCCESS", "MISSING_OR_INVALID_PARAMETER", "other"}

\* What a handler hands to the middleware above it: a response, or an
\* exception.
Response(status, json) == [kind |-> "response", status |-> status, json |-> json, exc |-> "none"]
Raised(exc, status) == [kind |-> "raise", status |-> status, json |-> FALSE, exc |-> exc]

\* _error_response: a JSON body with the status.
ErrorResponse(status) == Response(status, TRUE)

\* _handle_engine_command_rsp.
HandleEngineCommandRsp(result) ==
    IF result = "SUCCESS" THEN Response(200, FALSE)
    ELSE IF result = "MISSING_OR_INVALID_PARAMETER" THEN ErrorResponse(400)
    ELSE ErrorResponse(500)

\* A faulty HandleError: no `except TimeoutError` clause, the timeout is
\* caught by `except Exception`.
HandleErrorNoTimeoutClause(outcome) ==
    IF outcome.kind = "response"
    THEN IF outcome.status < 400 \/ outcome.json THEN outcome ELSE ErrorResponse(outcome.status)
    ELSE IF outcome.exc = "HTTPException" THEN ErrorResponse(outcome.status)
    ELSE ErrorResponse(500)

\* handle_error, applied to what the handler below it returned or raised.
HandleError(outcome) ==
    IF outcome.kind = "response"
    THEN IF outcome.status < 400 \/ outcome.json THEN outcome ELSE ErrorResponse(outcome.status)
    ELSE IF outcome.exc = "HTTPException" THEN ErrorResponse(outcome.status)
    ELSE IF outcome.exc = "TimeoutError" THEN ErrorResponse(504)
    ELSE ErrorResponse(500)

\* The timeout error of publish_and_receive.
TimeoutError == Raised("TimeoutError", None)

\* The wait of publish_and_receive has lasted as long as its timeout.
WaitTimedOut(r) == p_pc[r] = "waiting" /\ p_left[r] = 0

\* The request leaves handle_error with an outcome.
Answer(r, outcome) ==
    /\ p_pc' = [p_pc EXCEPT ![r] = "done"]
    /\ p_status' = [p_status EXCEPT ![r] = HandleError(outcome).status]

\* A request to start or stop a strategy arrives.  Without a session
\* verify_session answers it; with one, the handler calls
\* publish_and_receive, which publishes the command, the server hands it
\* to the engine when one is subscribed, and the call is suspended in the
\* round trip.
StrategyRequest(r, authed) ==
    /\ p_pc[r] = "idle"
    /\ IF authed
       THEN /\ e_sub => e_inbox < NumReqs
            /\ p_pc' = [p_pc EXCEPT ![r] = "publishing"]
            /\ p_status' = [p_status EXCEPT ![r] = None]
            /\ p_quiet' = [p_quiet EXCEPT ![r] = ~e_sub /\ e_inbox = 0 /\ rsp = NoRsp]
            /\ e_inbox' = IF e_sub THEN e_inbox + 1 ELSE e_inbox
       ELSE /\ Answer(r, ErrorResponse(401))
            /\ p_quiet' = [p_quiet EXCEPT ![r] = FALSE]
            /\ UNCHANGED e_inbox
    /\ UNCHANGED <<p_left, e_sub, rsp>>
    /\ UNCHANGED <<rvars, bvars, cvars, kvars, svars, r_cfg, a_pc, a_count>>

\* The round trip of the publish is over: the wait for a message on the
\* response channel begins, bounded by the timeout.
RequestPublished(r) ==
    /\ p_pc[r] = "publishing"
    /\ p_pc' = [p_pc EXCEPT ![r] = "waiting"]
    /\ p_left' = [p_left EXCEPT ![r] = MaxWait]
    /\ UNCHANGED <<p_status, p_quiet, e_sub, e_inbox, rsp>>
    /\ UNCHANGED <<rvars, bvars, cvars, kvars, svars, r_cfg, a_pc, a_count>>

\* The clock of the event loop advances.
ClockTick ==
    /\ \E r \in Reqs : p_pc[r] = "waiting" /\ p_left[r] > 0
    /\ p_left' = [r \in Reqs |-> IF p_pc[r] = "waiting" /\ p_left[r] > 0
                                 THEN p_left[r] - 1 ELSE p_left[r]]
    /\ UNCHANGED <<p_pc, p_status, p_quiet, e_sub, e_inbox, rsp>>
    /\ UNCHANGED <<rvars, bvars, cvars, kvars, svars, r_cfg, a_pc, a_count>>

\* The wait ends with the timeout error, which passes verify_session and
\* the session middleware and is caught by handle_error.
RequestTimeout(r) ==
    /\ WaitTimedOut(r)
    /\ Answer(r, TimeoutError)
    /\ UNCHANGED <<p_left, p_quiet, e_sub, e_inbox, rsp>>
    /\ UNCHANGED <<rvars, bvars, cvars, kvars, svars, r_cfg, a_pc, a_count>>

\* The message in flight on the response channel arrives: every request
\* that waits takes it as its response and the handler turns its result
\* into a status.
ResponseArrives ==
    /\ rsp # NoRsp
    /\ rsp' = NoRsp
    /\ p_pc' = [r \in Reqs |-> IF p_pc[r] = "waiting" THEN "done" ELSE p_pc[r]]
    /\ p_status' = [r \in Reqs |-> IF p_pc[r] = "waiting"
                                   THEN HandleError(HandleEngineCommandRsp(rsp)).status
                                   ELSE p_status[r]]
    /\ UNCHANGED <<p_left, p_quiet, e_sub, e_inbox>>
    /\ UNCHANGED <<rvars, bvars, cvars, kvars, svars, r_cfg, a_pc, a_count>>

\* The client has its response; the request is over.
RequestReturn(r) ==
    /\ p_pc[r] = "done"
    /\ p_pc' = [p_pc EXCEPT ![r] = "idle"]
    /\ p_left' = [p_left EXCEPT ![r] = 0]
    /\ p_status' = [p_status EXCEPT ![r] = None]
    /\ p_quiet' = [p_quiet EXCEPT ![r] = FALSE]
    /\ UNCHANGED <<e_sub, e_inbox, rsp>>
    /\ UNCHANGED <<rvars, bvars, cvars, kvars, svars, r_cfg, a_pc, a_count>>

\* An engine subscribes to the request channel.
EngineSubscribe ==
    /\ ~e_sub
    /\ e_sub' = TRUE
    /\ p_quiet' = [r \in Reqs |-> FALSE]
    /\ UNCHANGED <<p_pc, p_left, p_status, e_inbox, rsp>>
    /\ UNCHANGED <<rvars, bvars, cvars, kvars, svars, r_cfg, a_pc, a_count>>

\* The engine unsubscribes; it may still answer what it received.
EngineUnsubscribe ==
    /\ e_sub
    /\ e_sub' = FALSE
    /\ UNCHANGED <<p_pc, p_left, p_status, p_quiet, e_inbox, rsp>>
    /\ UNCHANGED <<rvars, bvars, cvars, kvars, svars, r_cfg, a_pc, a_count>>

\* The engine answers a command on the response channel.
EngineRespond(result) ==
    /\ e_inbox > 0
    /\ rsp = NoRsp
    /\ rsp' = result
    /\ e_inbox' = e_inbox - 1
    /\ UNCHANGED <<p_pc, p_left, p_status, p_quiet, e_sub>>
    /\ UNCHANGED <<rvars, bvars, cvars, kvars, svars, r_cfg, a_pc, a_count>>

\* The requests are alike: the next one is the first that is idle.
NextRequest(r) == \A q \in Reqs : q < r => p_pc[q] # "idle"

GatewayNext ==
    \/ \E r \in Reqs, authed \in BOOLEAN : NextRequest(r) /\ StrategyRequest(r, authed)
    \/ \E r \in Reqs : RequestPublished(r)
    \/ ClockTick
    \/ \E r \in Reqs : RequestTimeout(r)
    \/ ResponseArrives
    \/ \E r \in Reqs : RequestReturn(r)
    \/ EngineSubscribe
    \/ EngineUnsubscribe
    \/ \E result \in Results : EngineRespond(result)

SpecGateway == Init /\ [][GatewayNext]_vars

\* The round trip of a publish ends, the clock advances and an expired
\* timer fires.
SpecGatewayFair ==
    /\ SpecGateway
    /\ WF_vars(ClockTick)
    /\ \A r \in Reqs : WF_vars(RequestPublished(r)) /\ WF_vars(RequestTimeout(r))

\* The request is inside publish_and_receive.
InPublishAndReceive(r) == p_pc[r] \in {"publishing", "waiting"}

\* C21: a start or stop strategy request whose publish_and_receive finds
\* no subscriber on the request channel (no engine listens or answers from
\* the publish on) does not stay pending: the call ends, it ends by the
\* timeout error only, when the timeout has run out, and the client
\* receives 504, not 500.
C21_NoSubscriberTimesOutAs504 ==
    /\ \A r \in Reqs : InPublishAndReceive(r) ~> p_pc[r] = "done"
    /\ [][\A r \in Reqs :
            (InPublishAndReceive(r) /\ p_quiet[r] /\ p_pc'[r] = "done") =>
                /\ WaitTimedOut(r)
                /\ p_status'[r] = 504]_vars

\* A request published when no engine was subscribed has been answered
\* with 504 while the other request, sent without a session, was refused.
C21_Witness ==
    \E r, q \in Reqs :
        /\ p_pc[r] = "done"
        /\ p_quiet[r]
        /\ p_status[r] = 504
        /\ p_status[q] = 401
====
